---- MODULE Spec2Model ----
(***************************************************************************)
(* Model of the llm-guardr41l rule evaluation core: the line diff          *)
(* (computeDiff), the per-kind rule checkers and validateAgainstRules of   *)
(* src/diff-validator.ts, and the CLI check command that drives them.      *)
(*                                                                         *)
(* Strings are sequences of characters (a keyword such as "import" is one  *)
(* element).  A text is a sequence of lines plus a flag saying whether the *)
(* last line is newline-terminated; a line is one of a few syntactic forms *)
(* (record [k, a, b]) that the regular expressions of the source tell      *)
(* apart.  Literal searches (String.includes, literal regular expressions) *)
(* run over the rendered characters of the text.                           *)
(***************************************************************************)
EXTENDS Integers, Sequences, FiniteSets, TLC

VARIABLES
  original,      \* validateAgainstRules argument: the text before the change
  generated,     \* validateAgainstRules argument: the text after the change
  rules,         \* the rule set (RulesConfig): the argument, or rules.yaml for the CLI
  fileName,      \* optional argument: <<>> or <<name>>
  filesChanged,  \* optional argument: <<>> or <<n>>
  result,        \* the ValidationResult returned (or the error thrown)
  rulesPath,     \* CLI: <<>> when no rules.yaml is found, else <<path>>
  changes,       \* CLI: the staged or commit change set, one FileChange per file
  results,       \* CLI: the per-file results of the check command
  exitCode,      \* CLI: the exit code returned by the check command, -1 before
  diffBuild,     \* which behaviour of the linked diff library the build has
  host,          \* loaders: "cli" (core/rules-loader.ts) or "editor" (rules.ts)
  rulesFile,     \* loaders: the rules.yaml file of the workspace
  overrideDirs,  \* loaders: the .llm-guardrail.yaml file of every directory
                 \* from the workspace root down to the file's directory
  loaded,        \* loaders: what loadRulesForFile returned (or that it threw)
  approved,      \* the violations handed to addExceptionsToRules
  recheck,       \* the ValidationResult of the evaluation after the update
  cli,           \* CLI: the options of the command and what the file system and git do
  report,        \* CLI: the SARIF results the command formatted
  monitor,       \* editor: the fields of the ChangeMonitor instance
  workspace,     \* editor: the text of every document and which are open
  calls,         \* editor: the rejectChange and undoRejection calls waiting on an edit
  log,           \* every rejection made and whether it was undone; config.enabled at the start
  pc

vars == <<original, generated, rules, fileName, filesChanged, result,
          rulesPath, changes, results, exitCode, diffBuild,
          host, rulesFile, overrideDirs, loaded, approved, recheck,
          cli, report, monitor, workspace, calls, log, pc>>

loaderVars == <<host, rulesFile, overrideDirs, loaded>>

updaterVars == <<approved, recheck>>

cliVars == <<cli, report>>

monitorVars == <<monitor, workspace, calls, log>>

\* all but the variables of the change monitor
otherVars ==
  <<original, generated, rules, fileName, filesChanged, result, rulesPath, changes,
    results, exitCode, diffBuild, loaderVars, updaterVars, cliVars, pc>>

(* ------------------------------ bounds --------------------------------- *)
MaxOrigLines == 1
MaxGenLines == 2
MaxRules == 2
MaxFiles == 3
MaxDiffLines == 3
MaxOverrides == 2
MaxRejections == 3
MaxCalls == 2
MaxCliFiles == 2

(* --------------------------- string helpers ---------------------------- *)
Range(s) == {s[i] : i \in 1..Len(s)}

Min(x, y) == IF x < y THEN x ELSE y

\* String.prototype.startsWith
StartsWith(s, p) == Len(p) <= Len(s) /\ SubSeq(s, 1, Len(p)) = p

\* String.prototype.includes
Includes(s, lit) ==
  \E i \in 0..(Len(s) - Len(lit)) : SubSeq(s, i + 1, i + Len(lit)) = lit

\* s.match(new RegExp(lit, 'g')) for a literal pattern: the number of
\* non-overlapping occurrences found scanning left to right (0 models null)
RECURSIVE CountFrom(_, _, _)
CountFrom(s, lit, i) ==
  IF Len(lit) = 0 \/ i + Len(lit) - 1 > Len(s) THEN 0
  ELSE IF SubSeq(s, i, i + Len(lit) - 1) = lit
       THEN 1 + CountFrom(s, lit, i + Len(lit))
       ELSE CountFrom(s, lit, i + 1)

MatchCount(s, lit) == CountFrom(s, lit, 1)

\* s.split('/')[0]
RECURSIVE FirstSegment(_)
FirstSegment(s) ==
  IF s = <<>> \/ Head(s) = "/" THEN <<>>
  ELSE <<Head(s)>> \o FirstSegment(Tail(s))

\* s.replace(/^@/, '')
StripScope(s) == IF s # <<>> /\ Head(s) = "@" THEN Tail(s) ELSE s

RECURSIVE Flatten(_)
Flatten(ss) == IF ss = <<>> THEN <<>> ELSE Head(ss) \o Flatten(Tail(ss))

\* parts.join(sep)
RECURSIVE Join(_, _)
Join(parts, sep) ==
  IF parts = <<>> THEN <<>>
  ELSE IF Len(parts) = 1 THEN parts[1]
  ELSE parts[1] \o sep \o Join(Tail(parts), sep)

\* arr with duplicates dropped, first occurrence kept (the includes/push idiom)
RECURSIVE Dedupe(_, _)
Dedupe(s, acc) ==
  IF s = <<>> THEN acc
  ELSE Dedupe(Tail(s), IF Head(s) \in Range(acc) THEN acc ELSE Append(acc, Head(s)))

(* ------------------------------- texts --------------------------------- *)
\* The characters of one line (without its newline)
Render(l) ==
  CASE l.k = "es6"  -> <<"import", " ">> \o l.a \o <<" ", "from", " ", "'">> \o l.b \o <<"'">>
    [] l.k = "req"  -> <<"require", "(", "'">> \o l.b \o <<"'", ")">>
    [] l.k = "py"   -> <<"from", " ">> \o l.a \o <<" ", "import", " ">> \o l.b
    [] l.k = "imp"  -> <<"import", " ">> \o l.a
    [] l.k = "call" -> l.a \o <<"(", ")">>
    [] l.k = "decl" -> <<"const", " ">> \o l.a \o <<" ", "=", " ", "1">>
    [] l.k = "cmt"  -> <<"//", " ">> \o l.a
    [] l.k = "blk"  -> <<"/*", " ">> \o l.a \o <<" ", "*/">>
    [] l.k = "hash" -> <<"#", " ">> \o l.a
    [] l.k = "try"  -> <<"try", " ", "{">>
    [] l.k = "fn"   -> <<"function", " ">> \o l.a \o <<"(", ")", " ", "{">>

\* The line tokens diffLines compares: each line with its newline, the last
\* line without one when the text does not end in a newline
Tokens(t) ==
  [i \in 1..Len(t.lines) |->
     [line |-> t.lines[i], nl |-> (i < Len(t.lines)) \/ t.nl]]

RenderToken(tok) == Render(tok.line) \o (IF tok.nl THEN <<"\n">> ELSE <<>>)

RenderTokens(toks) == Flatten([i \in 1..Len(toks) |-> RenderToken(toks[i])])

\* The text as the string the program receives
RenderText(t) == RenderTokens(Tokens(t))

(* -------------------------------- diff --------------------------------- *)
RECURSIVE LCS(_, _)
LCS(x, y) ==
  IF x = <<>> \/ y = <<>> THEN 0
  ELSE IF Head(x) = Head(y) THEN 1 + LCS(Tail(x), Tail(y))
  ELSE LET p == LCS(Tail(x), y)
           q == LCS(x, Tail(y))
       IN IF p >= q THEN p ELSE q

\* A shortest edit script over line tokens: "=" common, "-" removed, "+" added
RECURSIVE EditScript(_, _)
EditScript(x, y) ==
  IF x = <<>> THEN [i \in 1..Len(y) |-> [op |-> "+", tok |-> y[i]]]
  ELSE IF y = <<>> THEN [i \in 1..Len(x) |-> [op |-> "-", tok |-> x[i]]]
  ELSE IF Head(x) = Head(y)
       THEN <<[op |-> "=", tok |-> Head(x)]>> \o EditScript(Tail(x), Tail(y))
  ELSE IF LCS(Tail(x), y) >= LCS(x, Tail(y))
       THEN <<[op |-> "-", tok |-> Head(x)]>> \o EditScript(Tail(x), y)
       ELSE <<[op |-> "+", tok |-> Head(y)]>> \o EditScript(x, Tail(y))

\* Maximal runs of one operation become one change object
RECURSIVE GroupRuns(_, _)
GroupRuns(script, acc) ==
  IF script = <<>> THEN acc
  ELSE LET e == Head(script)
           n == Len(acc)
       IN IF n > 0 /\ acc[n].op = e.op
          THEN GroupRuns(Tail(script),
                 [acc EXCEPT ![n].toks = Append(acc[n].toks, e.tok)])
          ELSE GroupRuns(Tail(script),
                 Append(acc, [op |-> e.op, toks |-> <<e.tok>>]))

\* The diff package is linked, not part of the repository, and its releases
\* differ on two empty inputs: the identity shortcut of the older ones returns
\* one change with the value '' , the newer ones build the change list from
\* the common run, which is empty, and return no change at all.
DiffBuilds == {"identity-chunk", "identity-components"}

\* Diff.diffLines(original, generated): identical inputs give one unchanged
\* change holding the whole text
DiffLines(o, g) ==
  IF Tokens(o) = Tokens(g)
  THEN IF Tokens(g) = <<>> /\ diffBuild = "identity-components" THEN <<>>
       ELSE <<[op |-> "=", toks |-> Tokens(g)]>>
  ELSE GroupRuns(EditScript(Tokens(o), Tokens(g)), <<>>)

\* (change.value.match(/\n/g) || []).length + (change.value.endsWith('\n') ? 0 : 1)
LineCount(value) ==
  Cardinality({i \in 1..Len(value) : value[i] = "\n"})
    + (IF value # <<>> /\ value[Len(value)] = "\n" THEN 0 ELSE 1)

ChangeType(op) == IF op = "+" THEN "added" ELSE IF op = "-" THEN "removed" ELSE "unchanged"

\* the cursor after a change: currentLine += lineCount, except after a removal
AdvanceBug(op, currentLine, lineCount) == currentLine + lineCount

Advance(op, currentLine, lineCount) ==
  IF op = "-" THEN currentLine ELSE currentLine + lineCount

RECURSIVE BuildChanges(_, _)
BuildChanges(chunks, currentLine) ==
  IF chunks = <<>> THEN <<>>
  ELSE LET c == Head(chunks)
           value == RenderTokens(c.toks)
           lineCount == LineCount(value)
           next == Advance(c.op, currentLine, lineCount)
       IN <<[type |-> ChangeType(c.op), value |-> value, toks |-> c.toks,
             lineNumber |-> currentLine, count |-> lineCount]>>
          \o BuildChanges(Tail(chunks), next)

RECURSIVE SumCount(_, _)
SumCount(chs, type) ==
  IF chs = <<>> THEN 0
  ELSE (IF Head(chs).type = type THEN Head(chs).count ELSE 0) + SumCount(Tail(chs), type)

\* totalLinesChanged: linesAdded + linesRemoved
TotalLinesChangedBug(linesAdded, linesRemoved) ==
  IF linesAdded >= linesRemoved THEN linesAdded ELSE linesRemoved

TotalLinesChanged(linesAdded, linesRemoved) == linesAdded + linesRemoved

computeDiff(o, g) ==
  LET chs == BuildChanges(DiffLines(o, g), 1)
      linesAdded == SumCount(chs, "added")
      linesRemoved == SumCount(chs, "removed")
  IN [changes |-> chs, linesAdded |-> linesAdded, linesRemoved |-> linesRemoved,
      totalLinesChanged |-> TotalLinesChanged(linesAdded, linesRemoved)]

RECURSIVE getChangedLineNumbersOf(_)
getChangedLineNumbersOf(chs) ==
  IF chs = <<>> THEN <<>>
  ELSE LET c == Head(chs)
       IN (IF c.type = "added"
           THEN [i \in 1..(IF c.count = 0 THEN 1 ELSE c.count) |-> c.lineNumber + i - 1]
           ELSE <<>>) \o getChangedLineNumbersOf(Tail(chs))

getChangedLineNumbers(diff) ==
  LET lineNumbers == getChangedLineNumbersOf(diff.changes)
  IN IF Len(lineNumbers) > 0 THEN lineNumbers ELSE <<1>>

(* ------------------------------- rules --------------------------------- *)
\* An optional value is <<>> (absent) or <<v>>.  List fields are sequences;
\* the checkers treat an absent list and an empty one alike.
NoRule ==
  [type |-> "none", description |-> <<>>, pattern |-> <<>>, files |-> <<>>,
   functions |-> <<>>, actions |-> <<>>, allowed |-> <<>>, forbidden |-> <<>>,
   require |-> "", forbid |-> <<>>, deny |-> <<>>,
   max_lines_changed |-> <<>>, max_files_changed |-> <<>>,
   require_approval |-> FALSE]

ScopeRule(files, functions, pattern) ==
  [NoRule EXCEPT !.type = "scope", !.description = << <<"scope">> >>, !.files = files,
                 !.functions = functions, !.pattern = pattern]

RefactorRule(actions) == [NoRule EXCEPT !.type = "refactor", !.actions = actions]

DependenciesRule(allowed, forbidden) ==
  [NoRule EXCEPT !.type = "dependencies", !.allowed = allowed, !.forbidden = forbidden]

ContentRule(forbid, deny, require) ==
  [NoRule EXCEPT !.type = "content", !.forbid = forbid, !.deny = deny, !.require = require]

ThresholdRule(maxLines, maxFiles, approval) ==
  [NoRule EXCEPT !.type = "threshold", !.max_lines_changed = maxLines,
                 !.max_files_changed = maxFiles, !.require_approval = approval]

\* new RegExp(p) throws a SyntaxError: in this alphabet exactly the patterns
\* holding an unbalanced "("
InvalidRegex(p) == "(" \in Range(p)

Violation(ri, ruleType, description, severity, tpl, arg, list, nums, lineNumbers) ==
  [rule |-> ri, ruleType |-> ruleType, description |-> description,
   severity |-> severity,
   details |-> [tpl |-> tpl, arg |-> arg, list |-> list, nums |-> nums],
   lineNumbers |-> lineNumbers]

ChangesOfType(diff, type) == SelectSeq(diff.changes, LAMBDA c : c.type = type)

\* diff.changes.filter(c => c.type === type).map(c => c.value).join('\n')
ContentOfType(diff, type) ==
  LET chs == ChangesOfType(diff, type)
  IN Join([i \in 1..Len(chs) |-> chs[i].value], <<"\n">>)

\* the lines of that string, for the regular expressions that recognise a
\* syntactic form; the blank separators of join('\n') hold no form
LinesOfType(diff, type) ==
  LET chs == ChangesOfType(diff, type)
      toks == Flatten([i \in 1..Len(chs) |-> chs[i].toks])
  IN [i \in 1..Len(toks) |-> toks[i].line]

Ok(vs) == [threw |-> FALSE, violations |-> vs]

Threw == [threw |-> TRUE, violations |-> <<>>]

(* --------------------------- scope checker ----------------------------- *)
\* new RegExp('^' + pattern.replace(/\*/g, '.*') + '$').test(name): "*" is
\* any run of characters, "." any one character, anything else itself
RECURSIVE GlobTest(_, _)
GlobTest(pattern, name) ==
  IF pattern = <<>> THEN name = <<>>
  ELSE IF Head(pattern) = "*"
       THEN \E k \in 0..Len(name) : GlobTest(Tail(pattern), SubSeq(name, k + 1, Len(name)))
  ELSE name # <<>>
       /\ (Head(pattern) = "." \/ Head(pattern) = Head(name))
       /\ GlobTest(Tail(pattern), Tail(name))

\* the callback of rule.files.some(...)
FilePatternThrows(pattern) == "*" \in Range(pattern) /\ InvalidRegex(pattern)

FilePatternMatches(pattern, name) ==
  IF "*" \in Range(pattern) THEN GlobTest(pattern, name)
  ELSE Includes(name, pattern) \/ Includes(pattern, name)

\* Array.prototype.some stops at the first pattern that matches, so a
\* pattern that throws is reached only when none before it matched
RECURSIVE FilesSome(_, _)
FilesSome(files, name) ==
  IF files = <<>> THEN "false"
  ELSE IF FilePatternThrows(Head(files)) THEN "throws"
  ELSE IF FilePatternMatches(Head(files), name) THEN "true"
  ELSE FilesSome(Tail(files), name)

\* (function\s+fn|fn\s*[=:]\s*(?:function|\(|async)) tested on a text: of
\* the line forms only a function declaration whose name starts with fn
FunctionPatternTest(fn, text) ==
  \E i \in 1..Len(text.lines) :
     text.lines[i].k = "fn" /\ StartsWith(text.lines[i].a, fn)

validateScopeRule(rule, ri, o, g, diff, fname) ==
  LET changedLines == getChangedLineNumbers(diff)
      checkFiles == Len(rule.files) > 0 /\ fname # <<>> /\ fname[1] # <<>>
      some == IF checkFiles THEN FilesSome(rule.files, fname[1]) ELSE "true"
      v1 == IF checkFiles /\ some = "false"
            THEN <<Violation(ri, "scope", "File modification outside allowed scope",
                             "error", "File is not in the allowed files list",
                             fname[1], rule.files, <<>>, changedLines)>>
            ELSE <<>>
      checkFns == Len(rule.functions) > 0
      fnThrows == checkFns /\ \E i \in 1..Len(rule.functions) : InvalidRegex(rule.functions[i])
      addedContent == ContentOfType(diff, "added")
      removedContent == ContentOfType(diff, "removed")
      functionsInOriginal ==
        \E i \in 1..Len(rule.functions) : FunctionPatternTest(rule.functions[i], o)
      v2 == IF checkFns /\ ~functionsInOriginal /\ (addedContent # <<>> \/ removedContent # <<>>)
            THEN <<Violation(ri, "scope", "Changes outside function scope", "warning",
                             "Expected changes only in functions", <<>>,
                             rule.functions, <<>>, changedLines)>>
            ELSE <<>>
      checkPattern == rule.pattern # <<>> /\ rule.pattern[1] # <<>>
      patThrows == checkPattern /\ InvalidRegex(rule.pattern[1])
      matchesInOriginal ==
        IF checkPattern THEN MatchCount(RenderText(o), rule.pattern[1]) ELSE 0
      hasChanges == \E i \in 1..Len(diff.changes) :
                       diff.changes[i].type \in {"added", "removed"}
      v3 == IF checkPattern /\ matchesInOriginal = 0 /\ hasChanges
            THEN <<Violation(ri, "scope", "Pattern not found in original code", "warning",
                             "The pattern was not found in the original code",
                             rule.pattern[1], <<>>, <<>>, changedLines)>>
            ELSE <<>>
  IN IF some = "throws" \/ fnThrows \/ patThrows THEN Threw
     ELSE Ok(v1 \o v2 \o v3)

(* -------------------------- refactor checker --------------------------- *)
\* action.toLowerCase() over the tags of the alphabet
ToLowerCase(action) ==
  CASE action = "ADD_COMMENTS" -> "add_comments"
    [] action = "Variable_Renames" -> "variable_renames"
    [] OTHER -> action

LineNames(ls, kind) ==
  LET sel == SelectSeq(ls, LAMBDA l : l.k = kind)
  IN [i \in 1..Len(sel) |-> sel[i].a]

\* /(?:const|let|var)\s+(\w+)/g, /(\w+)\s*=/g, /function\s+(\w+)/g in turn
extractVariableNames(ls) ==
  Dedupe(LineNames(ls, "decl") \o LineNames(ls, "decl") \o LineNames(ls, "fn"), <<>>)

\* the seven patterns in turn; of the line forms only `function a() {` is
\* matched, by /function\s+(\w+)/g and by /(\w+)\s*\([^)]*\)\s*{/g
extractFunctionNames(ls) ==
  LET names == LineNames(ls, "fn") \o LineNames(ls, "fn")
      kept == SelectSeq(names, LAMBDA n : n \notin {<<"if">>, <<"while">>, <<"for">>})
  IN Dedupe(kept, <<>>)

HasLine(ls, kind) == \E i \in 1..Len(ls) : ls[i].k = kind

\* the length of the array String.match returns for a regular expression
\* without the g flag and without groups: the one match itself
NonGlobalMatchLength(ls, kind) == IF HasLine(ls, kind) THEN 1 ELSE 0

\* commentPatterns: // to the end of the line, a block comment, # to the end
\* of the line; each is found in the lines of its kind
commentPatterns == <<"cmt", "blk", "hash">>

IsSpace(c) == c \in {" ", "\n"}

\* s.replace(/\s+/g, ' ').trim()
RECURSIVE Collapse(_, _)
Collapse(s, prevSpace) ==
  IF s = <<>> THEN <<>>
  ELSE IF IsSpace(Head(s))
       THEN (IF prevSpace THEN <<>> ELSE <<" ">>) \o Collapse(Tail(s), TRUE)
       ELSE <<Head(s)>> \o Collapse(Tail(s), FALSE)

Trim(s) ==
  LET a == IF s # <<>> /\ Head(s) = " " THEN Tail(s) ELSE s
  IN IF a # <<>> /\ a[Len(a)] = " " THEN SubSeq(a, 1, Len(a) - 1) ELSE a

Normalize(s) == Trim(Collapse(s, FALSE))

RefactorAction(rule, ri, action, o, g, diff) ==
  LET changedLines == getChangedLineNumbers(diff)
      tag == ToLowerCase(action)
      added == LinesOfType(diff, "added")
      removed == LinesOfType(diff, "removed")
  IN CASE tag \in {"variable_renames", "variable_rename"} ->
            LET removedVars == extractVariableNames(removed)
                addedVars == extractVariableNames(added)
                removedNotInAdded == SelectSeq(removedVars, LAMBDA v : v \notin Range(addedVars))
                addedNotInRemoved == SelectSeq(addedVars, LAMBDA v : v \notin Range(removedVars))
            IN IF Len(removedNotInAdded) > 0 /\ Len(addedNotInRemoved) > 0
               THEN <<Violation(ri, "refactor", "Possible variable rename detected", "warning",
                                "Variables removed / added", <<>>,
                                removedNotInAdded \o addedNotInRemoved, <<>>, changedLines)>>
               ELSE <<>>
       [] tag \in {"add_error_handling", "error_handling"} ->
            IF HasLine(added, "try") /\ ~HasLine(o.lines, "try")
            THEN <<Violation(ri, "refactor", "Unsolicited error handling added", "warning",
                             "New error handling code was added without being requested",
                             <<>>, <<>>, <<>>, changedLines)>>
            ELSE <<>>
       [] tag \in {"add_comments", "comments"} ->
            LET addedComments(p) == NonGlobalMatchLength(added, commentPatterns[p])
                originalComments(p) == NonGlobalMatchLength(o.lines, commentPatterns[p])
            IN IF \E p \in 1..Len(commentPatterns) :
                    /\ addedComments(p) > 0
                    /\ (originalComments(p) = 0 \/ addedComments(p) > originalComments(p))
               THEN <<Violation(ri, "refactor", "Unsolicited comments added", "warning",
                                "New comments were added without being requested",
                                <<>>, <<>>, <<>>, changedLines)>>
               ELSE <<>>
       [] tag \in {"change_formatting", "formatting"} ->
            IF Normalize(RenderText(o)) = Normalize(RenderText(g))
               /\ RenderText(o) # RenderText(g)
            THEN <<Violation(ri, "refactor", "Formatting-only changes detected", "warning",
                             "Code was reformatted without changing functionality",
                             <<>>, <<>>, <<>>, changedLines)>>
            ELSE <<>>
       [] OTHER -> <<>>

validateRefactorRule(rule, ri, o, g, diff) ==
  Ok(Flatten([i \in 1..Len(rule.actions) |->
                RefactorAction(rule, ri, rule.actions[i], o, g, diff)]))

(* ------------------------ dependencies checker ------------------------- *)
builtins ==
  << <<"f", "s">>, <<"p", "a", "t", "h">>, <<"h", "t", "t", "p">>,
     <<"h", "t", "t", "p", "s">>, <<"o", "s">>, <<"u", "t", "i", "l">>,
     <<"e", "v", "e", "n", "t", "s">>, <<"s", "t", "r", "e", "a", "m">>,
     <<"c", "r", "y", "p", "t", "o">> >>

\* What each of the four importPatterns captures (match[1]) over the added
\* lines, in the order of the matches:
\*   /import\s+.*?\s+from\s+['"]([^'"]+)['"]/g   import a from 'b'   -> b
\*   /require\s*\(\s*['"]([^'"]+)['"]\s*\)/g      require('b')        -> b
\*   /from\s+(\S+)\s+import/g                     from a import b     -> a, and
\*        import a from 'b' <newline> import ...  -> 'b' with its quotes
\*   /import\s+(\S+)/g     import a from 'b' -> a; import a -> a;
\*                         from a import b -> b
Captures1(ls) ==
  LET sel == SelectSeq(ls, LAMBDA l : l.k = "es6")
  IN [i \in 1..Len(sel) |-> sel[i].b]

Captures2(ls) ==
  LET sel == SelectSeq(ls, LAMBDA l : l.k = "req")
  IN [i \in 1..Len(sel) |-> sel[i].b]

Captures3(ls) ==
  Flatten([i \in 1..Len(ls) |->
    IF ls[i].k = "py" THEN <<ls[i].a>>
    ELSE IF ls[i].k = "es6" /\ i < Len(ls) /\ ls[i + 1].k \in {"es6", "imp"}
         THEN << <<"'">> \o ls[i].b \o <<"'">> >>
    ELSE <<>>])

Captures4(ls) ==
  Flatten([i \in 1..Len(ls) |->
    IF ls[i].k \in {"es6", "imp"} THEN <<ls[i].a>>
    ELSE IF ls[i].k = "py" THEN <<ls[i].b>>
    ELSE <<>>])

\* match[1].split('/')[0].replace(/^@/, '')
ImportName(capture) == StripScope(FirstSegment(capture))

NewImports(ls) ==
  LET caps == Captures1(ls) \o Captures2(ls) \o Captures3(ls) \o Captures4(ls)
  IN Dedupe([i \in 1..Len(caps) |-> ImportName(caps[i])], <<>>)

\* list.some(e => imp === e || imp.startsWith(e + '/'))
ListCoversBug(list, imp) ==
  \E i \in 1..Len(list) : StartsWith(imp, list[i] \o <<"/">>)

ListCovers(list, imp) ==
  \E i \in 1..Len(list) : imp = list[i] \/ StartsWith(imp, list[i] \o <<"/">>)

\* the filter callback of the allowed list check
NotAllowedBug(rule, imp) == ~ListCovers(rule.allowed, imp)

NotAllowed(rule, imp) ==
  IF StartsWith(imp, <<".">>) THEN FALSE
  ELSE IF imp \in Range(builtins) THEN FALSE
  ELSE ~ListCovers(rule.allowed, imp)

\* the filter callback of the forbidden list check
IsForbidden(rule, imp) == ListCovers(rule.forbidden, imp)

validateDependenciesRule(rule, ri, o, g, diff) ==
  LET changedLines == getChangedLineNumbers(diff)
      newImports == NewImports(LinesOfType(diff, "added"))
      notAllowed == IF Len(rule.allowed) > 0
                    THEN SelectSeq(newImports, LAMBDA imp : NotAllowed(rule, imp))
                    ELSE <<>>
      forbidden == IF Len(rule.forbidden) > 0
                   THEN SelectSeq(newImports, LAMBDA imp : IsForbidden(rule, imp))
                   ELSE <<>>
  IN Ok([i \in 1..Len(notAllowed) |->
           Violation(ri, "dependencies", "Unauthorized dependency added", "error",
                     "The dependency is not in the allowed list",
                     notAllowed[i], rule.allowed, <<>>, changedLines)]
        \o
        [i \in 1..Len(forbidden) |->
           Violation(ri, "dependencies", "Forbidden dependency added", "error",
                     "The dependency is in the forbidden list",
                     forbidden[i], <<>>, <<>>, changedLines)])

(* --------------------------- content checker --------------------------- *)
\* addedContent.includes(forbidden) && !original.includes(forbidden)
ForbidHitBug(addedContent, originalText, forbidden) == Includes(addedContent, forbidden)

ForbidHit(addedContent, originalText, forbidden) ==
  Includes(addedContent, forbidden) /\ ~Includes(originalText, forbidden)

\* the body of the try block for one deny pattern: matches is compared with
\* originalMatches, both taken with the g flag
DenyHit(addedContent, originalText, pattern) ==
  LET matches == MatchCount(addedContent, pattern)
      originalMatches == MatchCount(originalText, pattern)
  IN matches > 0 /\ (originalMatches = 0 \/ matches > originalMatches)

\* try { new RegExp(pattern, 'g') ... } catch { /* skip */ }
DenyEntryBug(rule, ri, pattern, addedContent, originalText, changedLines) ==
  IF InvalidRegex(pattern)
  THEN <<Violation(ri, "content", "Forbidden pattern detected", "error",
                   "The pattern was found in added content",
                   pattern, <<>>, <<>>, changedLines)>>
  ELSE IF DenyHit(addedContent, originalText, pattern)
       THEN <<Violation(ri, "content", "Forbidden pattern detected", "error",
                        "The pattern was found in added content",
                        pattern, <<>>, <<>>, changedLines)>>
       ELSE <<>>

DenyEntry(rule, ri, pattern, addedContent, originalText, changedLines) ==
  IF InvalidRegex(pattern) THEN <<>>
  ELSE IF DenyHit(addedContent, originalText, pattern)
       THEN <<Violation(ri, "content", "Forbidden pattern detected", "error",
                        "The pattern was found in added content",
                        pattern, <<>>, <<>>, changedLines)>>
       ELSE <<>>

validateContentRule(rule, ri, o, g, diff) ==
  LET changedLines == getChangedLineNumbers(diff)
      addedContent == ContentOfType(diff, "added")
      originalText == RenderText(o)
      v1 == Flatten([i \in 1..Len(rule.forbid) |->
              IF ForbidHit(addedContent, originalText, rule.forbid[i])
              THEN <<Violation(ri, "content", "Forbidden content added", "error",
                               "The content was added but is forbidden",
                               rule.forbid[i], <<>>, <<>>, changedLines)>>
              ELSE <<>>])
      v2 == Flatten([i \in 1..Len(rule.deny) |->
              DenyEntry(rule, ri, rule.deny[i], addedContent, originalText, changedLines)])
      originalFunctions == extractFunctionNames(o.lines)
      generatedFunctions == extractFunctionNames(g.lines)
      newFunctions == SelectSeq(generatedFunctions, LAMBDA f : f \notin Range(originalFunctions))
      v3 == IF rule.require \in {"use_existing_only", "use_existing_patterns_only"}
               /\ Len(newFunctions) > 3
            THEN <<Violation(ri, "content", "Too many new constructs introduced", "warning",
                             "new functions/methods were introduced", <<>>,
                             SubSeq(newFunctions, 1, Min(5, Len(newFunctions))),
                             <<Len(newFunctions)>>, changedLines)>>
            ELSE <<>>
  IN Ok(v1 \o v2 \o v3)

(* -------------------------- threshold checker -------------------------- *)
\* rule.max_lines_changed !== undefined && diff.totalLinesChanged > rule.max_lines_changed
TooManyLinesBug(rule, diff) ==
  rule.max_lines_changed # <<>> /\ diff.totalLinesChanged >= rule.max_lines_changed[1]

TooManyLines(rule, diff) ==
  rule.max_lines_changed # <<>> /\ diff.totalLinesChanged > rule.max_lines_changed[1]

\* rule.max_files_changed !== undefined && filesChanged !== undefined
\*   && filesChanged > rule.max_files_changed
TooManyFiles(rule, nfiles) ==
  rule.max_files_changed # <<>> /\ nfiles # <<>> /\ nfiles[1] > rule.max_files_changed[1]

validateThresholdRule(rule, ri, diff, nfiles) ==
  LET changedLines == getChangedLineNumbers(diff)
  IN Ok((IF TooManyLines(rule, diff)
         THEN <<Violation(ri, "threshold", "Too many lines changed", "error",
                          "Changed lines, maximum allowed is", <<>>, <<>>,
                          <<diff.totalLinesChanged, rule.max_lines_changed[1]>>,
                          changedLines)>>
         ELSE <<>>)
        \o
        (IF TooManyFiles(rule, nfiles)
         THEN <<Violation(ri, "threshold", "Too many files changed", "error",
                          "Changed files, maximum allowed is", <<>>, <<>>,
                          <<nfiles[1], rule.max_files_changed[1]>>, <<1>>)>>
         ELSE <<>>))

(* ------------------------- validateAgainstRules ------------------------ *)
\* rules.global?.require_approval_for_all ?? true
InitialApproval(rs) ==
  IF rs.global = <<>> THEN TRUE
  ELSE IF rs.global[1].require_approval_for_all = <<>> THEN TRUE
  ELSE rs.global[1].require_approval_for_all[1]

\* the switch on rule.type
DispatchRule(rule, ri, o, g, diff, fname, nfiles) ==
  CASE rule.type = "scope" -> validateScopeRule(rule, ri, o, g, diff, fname)
    [] rule.type = "refactor" -> validateRefactorRule(rule, ri, o, g, diff)
    [] rule.type = "dependencies" -> validateDependenciesRule(rule, ri, o, g, diff)
    [] rule.type = "content" -> validateContentRule(rule, ri, o, g, diff)
    [] rule.type = "threshold" -> validateThresholdRule(rule, ri, diff, nfiles)
    [] OTHER -> Ok(<<>>)

\* violations.push(...checked)
PushAllBug(violations, checked) == checked \o violations

PushAll(violations, checked) == violations \o checked

\* the threshold case: if (rule.require_approval) requiresApproval = true
ApprovalAfterBug(rule, requiresApproval) == requiresApproval

ApprovalAfter(rule, requiresApproval) ==
  IF rule.type = "threshold" /\ rule.require_approval THEN TRUE ELSE requiresApproval

\* the for loop over rules.rules, from rule ri on
RECURSIVE RunRules(_, _, _, _, _, _, _, _)
RunRules(rs, ri, o, g, diff, fname, nfiles, acc) ==
  IF ri > Len(rs.rules) THEN acc
  ELSE LET rule == rs.rules[ri]
           checked == DispatchRule(rule, ri, o, g, diff, fname, nfiles)
       IN IF checked.threw THEN [acc EXCEPT !.threw = TRUE]
          ELSE RunRules(rs, ri + 1, o, g, diff, fname, nfiles,
                 [acc EXCEPT !.violations = PushAll(acc.violations, checked.violations),
                             !.requiresApproval = ApprovalAfter(rule, acc.requiresApproval)])

\* !violations.some(v => v.severity === 'error')
IsValidBug(violations) == violations = <<>>

IsValid(violations) ==
  ~\E i \in 1..Len(violations) : violations[i].severity = "error"

NoDiff == [changes |-> <<>>, linesAdded |-> 0, linesRemoved |-> 0, totalLinesChanged |-> 0]

NoResult ==
  [threw |-> FALSE, valid |-> FALSE, violations |-> <<>>, diff |-> NoDiff,
   requiresApproval |-> FALSE]

validateAgainstRules(o, g, rs, fname, nfiles) ==
  LET diff == computeDiff(o, g)
      run == RunRules(rs, 1, o, g, diff, fname, nfiles,
                      [threw |-> FALSE, violations |-> <<>>,
                       requiresApproval |-> InitialApproval(rs)])
  IN IF run.threw THEN [NoResult EXCEPT !.threw = TRUE]
     ELSE [threw |-> FALSE, valid |-> IsValid(run.violations),
           violations |-> run.violations, diff |-> diff,
           requiresApproval |-> run.requiresApproval]

\* the rule set argument as the call leaves it.  The checkers read the rules
\* through some, map, join, includes and for...of; none assigns to a field of
\* a rule or calls a mutating array method on one of its lists
RulesAfterCallBug(rs) ==
  [rs EXCEPT !.rules = [i \in 1..Len(rs.rules) |-> [rs.rules[i] EXCEPT !.forbidden = <<>>]]]

RulesAfterCall(rs) == rs

(* ---------------------------- check command ---------------------------- *)
DEFAULT_GLOBAL ==
  [require_approval_for_all |-> <<TRUE>>, log_all_interactions |-> <<TRUE>>,
   strict_mode |-> <<FALSE>>]

\* { ...DEFAULT_RULES.global, ...(parsed.global || {}) }
MergeGlobal(base, over) ==
  IF over = <<>> THEN base
  ELSE [f \in DOMAIN base |-> IF over[1][f] # <<>> THEN over[1][f] ELSE base[f]]

DEFAULT_RULES == [rules |-> <<>>, global |-> <<DEFAULT_GLOBAL>>]

\* A YAML document as yaml.load returns it: null (an empty document), a
\* scalar, or an object whose fields are each absent (<<>>) or present.
\* Fields the loaders never read are left out.
NoDoc ==
  [kind |-> "null", replace |-> <<>>, rules |-> <<>>, disable |-> <<>>, global |-> <<>>]

ScalarDoc == [NoDoc EXCEPT !.kind = "scalar"]

Doc(replace, rs, disable, global) ==
  [NoDoc EXCEPT !.kind = "object", !.replace = replace, !.rules = rs,
                !.disable = disable, !.global = global]

\* A file: absent (existsSync is false), unreadable (readFileSync throws),
\* unparsable (yaml.load throws) or parsed into a document.  For the editor
\* the rules file can also have no path, no workspace folder being open.
File(state) == [state |-> state, doc |-> NoDoc]

Parsed(doc) == [state |-> "parsed", doc |-> doc]

Loaded(config) == [threw |-> FALSE, config |-> config]

LoadThrew == [threw |-> TRUE, config |-> DEFAULT_RULES]

\* !parsed || !parsed.rules
NoRulesField(doc) == doc.kind # "object" \/ doc.rules = <<>>

\* { ...DEFAULT_RULES, ...parsed, global: { ...DEFAULT_RULES.global, ...(parsed.global || {}) } }
WithDefaults(doc) ==
  [rules |-> doc.rules[1], global |-> <<MergeGlobal(DEFAULT_GLOBAL, doc.global)>>]

\* core/rules-loader.ts: an error of readFileSync or yaml.load is caught and
\* thrown again as 'Failed to load rules from ...'
loadRulesFromPath(f) ==
  IF f.state = "absent" THEN Loaded(DEFAULT_RULES)
  ELSE IF f.state # "parsed" THEN LoadThrew
  ELSE IF NoRulesField(f.doc) THEN Loaded(DEFAULT_RULES)
  ELSE Loaded(WithDefaults(f.doc))

\* rules.ts: the same, but the catch block shows the error and returns the
\* defaults
loadRules(f) ==
  IF f.state = "noworkspace" THEN Loaded(DEFAULT_RULES)
  ELSE IF f.state = "absent" THEN Loaded(DEFAULT_RULES)
  ELSE IF f.state # "parsed" THEN Loaded(DEFAULT_RULES)
  ELSE IF NoRulesField(f.doc) THEN Loaded(DEFAULT_RULES)
  ELSE Loaded(WithDefaults(f.doc))

\* String.prototype.toLowerCase over the letters that occur in upper case
LowerCase(str) ==
  [i \in 1..Len(str) |->
     CASE str[i] = "L" -> "l" [] str[i] = "O" -> "o" [] str[i] = "G" -> "g"
       [] str[i] = "N" -> "n" [] OTHER -> str[i]]

\* the filter callback of the disable list, negated: the rule is dropped.
\* A rule type is one character of the model (a keyword), so the disable
\* string that names a type is the one-element sequence holding it.
Disabled(rule, disable) ==
  LET typeMatch == \E i \in 1..Len(disable) : disable[i] = <<rule.type>>
      descMatch ==
        /\ rule.description # <<>>
        /\ rule.description[1] # <<>>
        /\ \E i \in 1..Len(disable) :
             Includes(LowerCase(rule.description[1]), LowerCase(disable[i]))
  IN typeMatch \/ descMatch

\* the global block of the replace branch
ReplaceGlobalBug(base, override) == MergeGlobal(base.global[1], override.global)

ReplaceGlobal(base, override) == MergeGlobal(DEFAULT_GLOBAL, override.global)

\* mergedRules after the disable filter
KeepEnabledBug(mergedRules, override) ==
  IF override.disable # <<>> /\ Len(override.disable[1]) > 0
  THEN SelectSeq(mergedRules, LAMBDA rule : \A i \in 1..Len(override.disable[1]) :
                                             override.disable[1][i] # <<rule.type>>)
  ELSE mergedRules

KeepEnabled(mergedRules, override) ==
  IF override.disable # <<>> /\ Len(override.disable[1]) > 0
  THEN SelectSeq(mergedRules, LAMBDA rule : ~Disabled(rule, override.disable[1]))
  ELSE mergedRules

applyRulesOverride(base, override) ==
  IF override.replace # <<>> /\ override.replace[1]
  THEN [rules |-> IF override.rules # <<>> THEN override.rules[1] ELSE <<>>,
        global |-> <<ReplaceGlobal(base, override)>>]
  ELSE LET mergedRules == KeepEnabled(base.rules, override)
       IN [rules |-> IF override.rules # <<>> /\ Len(override.rules[1]) > 0
                     THEN mergedRules \o override.rules[1] ELSE mergedRules,
           global |-> <<MergeGlobal(base.global[1], override.global)>>]

\* the directories from the root to the target, those holding an override file
findOverrideFiles(dirs) == SelectSeq(dirs, LAMBDA d : d.state # "absent")

\* the body of the loop over the override files: a file that cannot be read
\* or parsed is reported and skipped, an empty document is skipped
ApplyOverrideFileBug(baseRules, f) ==
  IF f.state # "parsed" THEN DEFAULT_RULES
  ELSE IF f.doc.kind = "null" THEN baseRules
  ELSE applyRulesOverride(baseRules, f.doc)

ApplyOverrideFile(baseRules, f) ==
  IF f.state # "parsed" THEN baseRules
  ELSE IF f.doc.kind = "null" THEN baseRules
  ELSE applyRulesOverride(baseRules, f.doc)

RECURSIVE ApplyOverrideFiles(_, _)
ApplyOverrideFiles(baseRules, files) ==
  IF files = <<>> THEN baseRules
  ELSE ApplyOverrideFiles(ApplyOverrideFile(baseRules, Head(files)), Tail(files))

\* loadRulesForFile of the CLI (base from loadRulesFromPath, whose error
\* propagates) and of the editor (base from loadRules; without a workspace
\* folder it returns loadRules() alone)
loadRulesForFile(h, f, dirs) ==
  LET base == IF h = "cli" THEN loadRulesFromPath(f) ELSE loadRules(f)
  IN IF base.threw THEN LoadThrew
     ELSE IF f.state = "noworkspace" THEN base
     ELSE Loaded(ApplyOverrideFiles(base.config, findOverrideFiles(dirs)))

RuleTypes == {"scope", "refactor", "dependencies", "content", "threshold"}

\* a null or non-object element of the rules array
NullRule == [NoRule EXCEPT !.type = "null"]

\* config is an object here and config.rules an array, which leaves the loop
\* over the rules
validateRulesConfig(config) ==
  \A i \in 1..Len(config.rules) :
    config.rules[i] # NullRule /\ config.rules[i].type \in RuleTypes

\* the loop body of check: loadRulesForFile and validateAgainstRules(before,
\* after, rules, fileName) in a workspace without override files; an error
\* of the loader leaves the loop as an error of the validator does
CheckFile(f, change) ==
  LET ld == loadRulesForFile("cli", f, <<>>)
  IN IF ld.threw THEN [NoResult EXCEPT !.threw = TRUE]
     ELSE validateAgainstRules(change.before, change.after, ld.config,
                               <<change.fileName>>, <<>>)

(* ------------------------ command line: output ------------------------- *)
\* The options of a run and what its environment does: the output format,
\* whether --output is given, whether the --before and --after files exist,
\* whether git lists the changes, whether the output file can be written.
PlainCli ==
  [format |-> "text", output |-> FALSE, before |-> TRUE, after |-> TRUE,
   git |-> TRUE, write |-> TRUE]

NoReport == [produced |-> FALSE, results |-> <<>>]

NoCli == cli = PlainCli /\ report = NoReport

\* return result.valid ? 0 : 1 and return hasErrors ? 1 : 0
ExitCodeBug(failed) == 0

ExitCode(failed) == IF failed THEN 1 ELSE 0

\* v.severity === 'error' ? 'error' : 'warning'
SarifLevel(v) == IF v.severity = "error" THEN "error" ELSE "warning"

\* v.details || v.description: an empty details string is falsy
SarifText(v) ==
  IF v.details.tpl # "" THEN v.details
  ELSE [tpl |-> v.description, arg |-> <<>>, list |-> <<>>, nums |-> <<>>]

\* v.lineNumbers?.[0] || 1
SarifStartLine(v) ==
  IF Len(v.lineNumbers) > 0 /\ v.lineNumbers[1] # 0 THEN v.lineNumbers[1] ELSE 1

SarifLocation(uri, v) == [uri |-> uri, startLine |-> SarifStartLine(v)]

\* a rule id is the rule kind, alone or followed by "/" and an index
RuleId(kind, index) == [kind |-> kind, index |-> index]

\* formatters.ts: the results array of formatSarif(result, {fileName})
formatSarif(res, fname) ==
  [i \in 1..Len(res.violations) |->
     LET v == res.violations[i]
     IN [ruleId |-> RuleId(v.ruleType, <<i - 1>>),
         level |-> SarifLevel(v),
         text |-> SarifText(v),
         locations |-> IF fname # <<>> THEN <<SarifLocation(fname[1], v)>> ELSE <<>>]]

\* results.flatMap(r => r.result.violations.map(v => ({ ...v, fileName: r.fileName })))
RECURSIVE AllViolations(_, _)
AllViolations(rs, chs) ==
  IF rs = <<>> THEN <<>>
  ELSE [k \in 1..Len(rs[1].violations) |->
          [v |-> rs[1].violations[k], fileName |-> chs[1].fileName]]
       \o AllViolations(Tail(rs), Tail(chs))

\* the results array of the sarif branch of check
checkSarif(rs, chs) ==
  LET all == AllViolations(rs, chs)
  IN [i \in 1..Len(all) |->
        [ruleId |-> RuleId(all[i].v.ruleType, <<>>),
         level |-> SarifLevel(all[i].v),
         text |-> SarifText(all[i].v),
         locations |-> <<SarifLocation(all[i].fileName, all[i].v)>>]]

\* the common tail of both commands: the formatted report is printed, or
\* written to the --output file
Reported(rows) ==
  IF cli.format = "sarif" /\ (cli.output => cli.write)
  THEN [produced |-> TRUE, results |-> rows]
  ELSE NoReport

(* -------------------------- exception updater -------------------------- *)
\* the text of the quoted part that /"([^"]+)"/ captures: up to the first
\* double quote
RECURSIVE UpToQuote(_)
UpToQuote(str) ==
  IF str = <<>> \/ Head(str) = "\"" THEN <<>>
  ELSE <<Head(str)>> \o UpToQuote(Tail(str))

\* details.match(/<start of a message> "([^"]+)"/): <<>> for null, else <<match[1]>>
QuotedIn(details, templates) ==
  IF details.tpl \in templates /\ UpToQuote(details.arg) # <<>>
  THEN <<UpToQuote(details.arg)>> ELSE <<>>

\* list.indexOf(x), then list.splice(index, 1) when the index is not -1
RECURSIVE RemoveFirst(_, _)
RemoveFirst(list, x) ==
  IF list = <<>> THEN <<>>
  ELSE IF Head(list) = x THEN Tail(list)
  ELSE <<Head(list)>> \o RemoveFirst(Tail(list), x)

\* the body of the loop over the matching rules
ExceptRule(rule, violation) ==
  IF rule.type = "dependencies"
  THEN LET match == QuotedIn(violation.details,
                             {"The dependency is not in the allowed list",
                              "The dependency is in the forbidden list"})
       IN IF match = <<>> THEN rule
          ELSE LET dep == match[1]
               IN [rule EXCEPT
                     !.allowed = IF dep \in Range(@) THEN @ ELSE Append(@, dep),
                     !.forbidden = RemoveFirst(@, dep)]
  ELSE IF rule.type = "content"
  THEN LET contentMatch == QuotedIn(violation.details,
                                    {"The content was added but is forbidden"})
           patternMatch == QuotedIn(violation.details,
                                    {"The pattern was found in added content"})
           pattern == IF contentMatch # <<>> THEN contentMatch ELSE patternMatch
       IN IF pattern = <<>> THEN rule
          ELSE [rule EXCEPT !.forbid = RemoveFirst(@, pattern[1]),
                            !.deny = RemoveFirst(@, pattern[1])]
  ELSE rule

\* rules.rules.filter(r => r.type === violation.ruleType), each updated in place
ExceptRules(rs, violation) ==
  [i \in 1..Len(rs) |->
     IF rs[i].type = violation.ruleType THEN ExceptRule(rs[i], violation) ELSE rs[i]]

RECURSIVE ExceptAll(_, _)
ExceptAll(rs, violations) ==
  IF violations = <<>> THEN rs
  ELSE ExceptAll(ExceptRules(rs, Head(violations)), Tail(violations))

\* addExceptionsToRules(violations): the rules.yaml document afterwards and
\* the value returned.  Every push and splice sets modified, so the document
\* is written exactly when it differs.  The document holds strings, numbers,
\* booleans, lists and maps only, which yaml.dump writes so that yaml.load
\* reads the same values back.
addExceptionsToRules(path, doc, violations) ==
  IF path = <<>> THEN [modified |-> FALSE, rules |-> doc]
  ELSE LET updated == [doc EXCEPT !.rules = ExceptAll(doc.rules, violations)]
       IN [modified |-> updated # doc, rules |-> updated]

(* --------------------------- change monitor ---------------------------- *)
\* the document of the workspace and the texts it can hold: "", "1" and
\* "1\n2", each a sequence of one-character lines
Uris == {"a"}

Contents == {<<>>, <<1>>, <<1, 2>>}

Max(x, y) == IF x > y THEN x ELSE y

\* text.split('\n'): the empty text is one empty line
SplitLines(c) == IF c = <<>> THEN << <<>> >> ELSE [i \in 1..Len(c) |-> <<c[i]>>]

\* text.length
Length(c) == IF c = <<>> THEN 0 ELSE 2 * Len(c) - 1

calculateChangeStats(o, m) ==
  LET originalLines == SplitLines(o)
      modifiedLines == SplitLines(m)
      maxLen == Max(Len(originalLines), Len(modifiedLines))
      changedCount ==
        Cardinality({i \in 1..maxLen :
                       IF i <= Len(originalLines) /\ i <= Len(modifiedLines)
                       THEN originalLines[i] # modifiedLines[i] ELSE TRUE})
      charsAdded == Max(0, Length(m) - Length(o))
      charsRemoved == Max(0, Length(o) - Length(m))
  IN [linesChanged |-> changedCount, totalChanged |-> charsAdded + charsRemoved]

\* the settings monitorMinLines and monitorMinChars of the workspace
minLinesChanged == 2

minCharsChanged == 50

isSignificantChange(stats) ==
  stats.linesChanged >= minLinesChanged \/ stats.totalChanged >= minCharsChanged

\* The fields of a ChangeMonitor.  A map holds <<>> for a missing key and
\* <<v>> for a value; a debounce timer is "none" when the map has no entry,
\* "waiting" once set and "fired" after its callback ran, the entry staying
\* in the map; the batch is <<>> (null) or the set of its files.
NewMonitor(enabled, autoRevert) ==
  [documentSnapshots |-> [u \in Uris |-> <<>>],
   debounceTimers |-> [u \in Uris |-> "none"],
   pendingChanges |-> [u \in Uris |-> <<>>],
   isProcessing |-> {},
   rejectedChanges |-> [u \in Uris |-> <<>>],
   rejectionHistory |-> <<>>,
   currentBatch |-> <<>>,
   enabled |-> enabled,
   autoRevertOnReject |-> autoRevert]

\* rejectionHistory.length > 10
HistoryLimit == 10

NoMonitor ==
  /\ monitor = NewMonitor(TRUE, TRUE)
  /\ workspace = [text |-> [u \in Uris |-> <<>>], open |-> {}]
  /\ calls = <<>>
  /\ log = [rejections |-> <<>>, enabled |-> TRUE]

clearDebounce(m, u) == [m EXCEPT !.debounceTimers[u] = "none"]

\* onDidOpenTextDocument
onDidOpen(m, u, text) == [m EXCEPT !.documentSnapshots[u] = <<text>>]

\* onDidCloseTextDocument
onDidClose(m, u) ==
  clearDebounce([m EXCEPT !.documentSnapshots[u] = <<>>, !.pendingChanges[u] = <<>>], u)

\* onDidSaveTextDocument
onDidSave(m, u, text) ==
  IF m.pendingChanges[u] = <<>> /\ m.debounceTimers[u] = "none"
  THEN [m EXCEPT !.documentSnapshots[u] = <<text>>]
  ELSE m

\* handleDocumentChange, text being document.getText()
handleDocumentChange(m, u, text) ==
  IF ~m.enabled THEN m
  ELSE IF u \in m.isProcessing
          /\ ~(m.pendingChanges[u] # <<>> /\ text # m.pendingChanges[u][1].newContent)
       THEN m
  ELSE LET m1 == IF u \in m.isProcessing
                 THEN [m EXCEPT !.pendingChanges[u] = <<>>, !.isProcessing = @ \ {u}]
                 ELSE m
       IN [clearDebounce(m1, u) EXCEPT !.debounceTimers[u] = "waiting"]

\* addToBatch: a batch older than the window is replaced by a new one
addToBatch(m, u, expired) ==
  [m EXCEPT !.currentBatch =
     IF m.currentBatch = <<>> \/ expired THEN <<{u}>> ELSE <<m.currentBatch[1] \cup {u}>>]

\* processChange, run by the debounce timer
processChange(m, u, text, expired) ==
  LET originalContent == m.documentSnapshots[u]
  IN IF originalContent = <<>> THEN [m EXCEPT !.documentSnapshots[u] = <<text>>]
     ELSE IF originalContent[1] = text THEN m
     ELSE IF ~isSignificantChange(calculateChangeStats(originalContent[1], text))
          THEN [m EXCEPT !.documentSnapshots[u] = <<text>>]
     ELSE [addToBatch(m, u, expired) EXCEPT
             !.isProcessing = @ \cup {u},
             !.pendingChanges[u] = <<[originalContent |-> originalContent[1],
                                      newContent |-> text]>>]

approveChange(m, u) ==
  IF m.pendingChanges[u] = <<>> THEN m
  ELSE [m EXCEPT !.documentSnapshots[u] = <<m.pendingChanges[u][1].newContent>>,
                 !.pendingChanges[u] = <<>>,
                 !.isProcessing = @ \ {u}]

RejectedChange(u, change, stamp) ==
  [documentUri |-> u, originalContent |-> change.originalContent,
   rejectedContent |-> change.newContent, timestamp |-> stamp]

\* rejectionHistory.unshift(rejectedChange), then pop() beyond the limit
Unshift(history, rc) ==
  LET h == <<rc>> \o history
  IN IF Len(h) > HistoryLimit THEN SubSeq(h, 1, Len(h) - 1) ELSE h

\* rejectChange up to its first await: whether it returns at once, and the
\* monitor it leaves
rejectChange(m, u, stamp) ==
  LET change == m.pendingChanges[u]
  IN IF change = <<>>
     THEN [returns |-> TRUE, monitor |-> [m EXCEPT !.isProcessing = @ \ {u}]]
     ELSE IF ~m.autoRevertOnReject
     THEN [returns |-> TRUE,
           monitor |-> [m EXCEPT !.pendingChanges[u] = <<>>, !.isProcessing = @ \ {u}]]
     ELSE LET rc == RejectedChange(u, change[1], stamp)
          IN [returns |-> FALSE,
              monitor |-> [m EXCEPT !.rejectedChanges[u] = <<rc>>,
                                    !.rejectionHistory = Unshift(@, rc),
                                    !.pendingChanges[u] = <<>>,
                                    !.isProcessing = @ \ {u},
                                    !.enabled = FALSE]]

\* a call that waits for its edit: what it remembers
Call(op, u, at, wasEnabled, rc) ==
  [op |-> op, uri |-> u, at |-> at, wasEnabled |-> wasEnabled, change |-> rc]

RemoveAt(s, i) == SubSeq(s, 1, i - 1) \o SubSeq(s, i + 1, Len(s))

\* the edit replaces the whole text; the change event reaches
\* handleDocumentChange when the text differs
Edited(m, u, old, text) == IF old = text THEN m ELSE handleDocumentChange(m, u, text)

\* rejectionHistory.filter(r => r.documentUri !== documentUri)
WithoutUri(history, u) == SelectSeq(history, LAMBDA r : r.documentUri # u)

(* ------------------------------- inputs -------------------------------- *)
L(k, a, b) == [k |-> k, a |-> a, b |-> b]

Text(lines, nl) == [lines |-> lines, nl |-> nl]

EmptyText == Text(<<>>, FALSE)

SeqsUpTo(S, n) == UNION {[1..k -> S] : k \in 0..n}

\* every text of at most n lines over the alphabet, with and without a
\* final newline
TextsOver(alphabet, n) ==
  {EmptyText} \cup
  {Text(ls, nl) : ls \in SeqsUpTo(alphabet, n) \ {<<>>}, nl \in BOOLEAN}

\* the same, every text ending in a newline
LinesOver(alphabet, n) ==
  {EmptyText} \cup {Text(ls, TRUE) : ls \in SeqsUpTo(alphabet, n) \ {<<>>}}

mo == <<"m", "o">>

lo == <<"l", "o">>

fs == <<"f", "s">>

ev == <<"e", "v">>

dbg == <<"d", "b", "g">>

bad == <<"e", "v", "(">>

GlobalOf(b) ==
  [require_approval_for_all |-> b, log_all_interactions |-> <<>>, strict_mode |-> <<>>]

\* the global block: absent, present without the field, true, false
Globals == {<<>>, <<GlobalOf(<<>>)>>, <<GlobalOf(<<TRUE>>)>>, <<GlobalOf(<<FALSE>>)>>}

RuleSet(rs, gl) == [rules |-> rs, global |-> gl]

\* --- dependency scenarios: imports of every syntax, scoped, relative and
\* builtin modules, against allowed and forbidden lists
DepGenLines ==
  {L("es6", mo, mo),
   L("es6", <<"_">>, <<"l", "o", "/", "f", "p">>),
   L("req", <<>>, <<"@", "s", "/", "x">>),
   L("req", <<>>, <<".", "/", "u">>),
   L("req", <<>>, fs),
   L("imp", <<"o", "s">>, <<>>),
   L("py", mo, <<"x">>)}

DepOrigLines == {L("es6", mo, mo)}

DepAllowed == {<<>>, <<lo, mo>>, << <<"s">> >>}

DepForbidden == {<<>>, <<mo>>, <<fs>>, <<lo, <<".">> >>}

DepRuleSets ==
  {RuleSet(<<DependenciesRule(al, fb)>>, <<>>) : al \in DepAllowed, fb \in DepForbidden}

\* --- content scenarios: forbidden literals and deny patterns, one of them
\* not a valid regular expression, followed or not by a further rule
ContentLines == {L("call", ev, <<>>), L("call", dbg, <<>>)}

ContentForbid == {<<>>, <<ev, dbg>>, <<ev, ev>>}

ContentDeny == {<<>>, <<ev>>, <<bad, ev>>, <<ev, bad, dbg>>}

ContentFollowers == {<<>>, <<ThresholdRule(<<0>>, <<>>, FALSE)>>}

ContentRuleSets ==
  {RuleSet(<<ContentRule(f, d, "")>> \o more, <<>>) :
     f \in ContentForbid, d \in ContentDeny, more \in ContentFollowers}

\* --- threshold scenarios: limits below, at and above the sizes that occur
ThresholdLines == {L("decl", <<"x">>, <<>>), L("decl", <<"y">>, <<>>)}

OptLimits == {<<>>, <<0>>, <<1>>, <<2>>}

OptFileCounts == {<<>>, <<1>>, <<2>>, <<3>>}

ThresholdRuleSets ==
  {RuleSet(<<ThresholdRule(ml, mf, FALSE)>>, <<>>) :
     ml \in OptLimits, mf \in OptLimits \ {<<0>>}}

\* --- mixed scenarios: rules of every kind in any order, every form of the
\* global block
MixedLines == <<L("cmt", <<"x">>, <<>>), L("es6", mo, mo), L("call", ev, <<>>)>>

\* the texts made of any of these lines, in this order
MixedGenTexts ==
  {LET ls == SelectSeq(MixedLines, LAMBDA l : l \in S)
   IN IF ls = <<>> THEN EmptyText ELSE Text(ls, TRUE) : S \in SUBSET Range(MixedLines)}

MixedOrigTexts == {EmptyText, Text(<<L("call", dbg, <<>>)>>, TRUE)}

MixedRules ==
  {ScopeRule(<<>>, <<>>, <<ev>>),
   RefactorRule(<<"ADD_COMMENTS", "formatting">>),
   DependenciesRule(<<>>, <<mo>>),
   ContentRule(<<ev>>, <<>>, ""),
   ThresholdRule(<<1>>, <<>>, TRUE),
   ThresholdRule(<<>>, <<>>, FALSE)}

MixedRuleSets ==
  {RuleSet(rs, gl) : rs \in SeqsUpTo(MixedRules, MaxRules), gl \in Globals}

(* ---------------------------- specification ---------------------------- *)
\* neither a loader nor the exception updater has run
NoLoad ==
  /\ host = "cli"
  /\ rulesFile = File("absent")
  /\ overrideDirs = <<>>
  /\ loaded = Loaded(DEFAULT_RULES)
  /\ approved = <<>>
  /\ recheck = NoResult
  /\ NoCli
  /\ NoMonitor
\* the builds behave alike unless both texts are empty: one stands for all
\* of them elsewhere
DiffBuildsFor(o, g) ==
  IF Tokens(o) = <<>> /\ Tokens(g) = <<>> THEN DiffBuilds ELSE {"identity-chunk"}

Start(o, g, rs, fname, nfiles) ==
  /\ original = o
  /\ generated = g
  /\ rules = rs
  /\ fileName = fname
  /\ filesChanged = nfiles
  /\ result = NoResult
  /\ rulesPath = <<>>
  /\ changes = <<>>
  /\ results = <<>>
  /\ exitCode = -1
  /\ diffBuild \in DiffBuildsFor(o, g)
  /\ NoLoad
  /\ pc = "ready"

InitDependencies ==
  \E o \in TextsOver(DepOrigLines, MaxOrigLines), g \in LinesOver(DepGenLines, MaxGenLines),
     rs \in DepRuleSets : Start(o, g, rs, <<>>, <<>>)

InitContent ==
  \E o \in TextsOver(ContentLines, MaxOrigLines), g \in TextsOver(ContentLines, MaxGenLines),
     rs \in ContentRuleSets : Start(o, g, rs, <<>>, <<>>)

InitThreshold ==
  \E o \in TextsOver(ThresholdLines, MaxOrigLines), g \in TextsOver(ThresholdLines, MaxGenLines),
     rs \in ThresholdRuleSets, n \in OptFileCounts : Start(o, g, rs, <<>>, n)

InitMixed ==
  \E o \in MixedOrigTexts, g \in MixedGenTexts, rs \in MixedRuleSets : Start(o, g, rs, <<>>, <<>>)

Init == InitDependencies \/ InitContent \/ InitThreshold \/ InitMixed

\* one call validateAgainstRules(original, generated, rules, fileName, filesChanged)
Validate ==
  /\ pc = "ready"
  /\ result' = validateAgainstRules(original, generated, rules, fileName, filesChanged)
  /\ rules' = RulesAfterCall(rules)
  /\ pc' = "validated"
  /\ UNCHANGED <<original, generated, fileName, filesChanged,
                 rulesPath, changes, results, exitCode, diffBuild, loaderVars, updaterVars, cliVars, monitorVars>>

Next == Validate

Spec == Init /\ [][Next]_vars

(* ------------------------ check command (CLI) -------------------------- *)
FileChange(name, before, after) == [fileName |-> name, before |-> before, after |-> after]

xLine == L("decl", <<"x">>, <<>>)

yLine == L("decl", <<"y">>, <<>>)

\* the files a commit can touch: one added, two edited, one emptied
ChangedFiles ==
  {FileChange(<<"a">>, EmptyText, Text(<<xLine>>, TRUE)),
   FileChange(<<"b">>, Text(<<xLine>>, TRUE), Text(<<xLine, yLine>>, TRUE)),
   FileChange(<<"c">>, Text(<<xLine>>, TRUE), Text(<<yLine>>, TRUE)),
   FileChange(<<"d">>, Text(<<xLine, yLine>>, TRUE), EmptyText)}

\* git lists every changed file once
ChangeSets ==
  {cs \in SeqsUpTo(ChangedFiles, MaxFiles) :
     \A i, j \in 1..Len(cs) : i # j => cs[i].fileName # cs[j].fileName}

CheckRuleSets ==
  {RuleSet(<<ThresholdRule(ml, mf, FALSE)>>, gl) :
     ml \in {<<>>, <<1>>}, mf \in {<<>>, <<1>>, <<2>>},
     gl \in {<<>>, <<GlobalOf(<<FALSE>>)>>}}

InitCheck ==
  \E cs \in ChangeSets, doc \in CheckRuleSets, rp \in {<<>>, <<"rules.yaml">>} :
     /\ original = EmptyText
     /\ generated = EmptyText
     /\ rules = doc
     /\ fileName = <<>>
     /\ filesChanged = <<>>
     /\ result = NoResult
     /\ rulesPath = rp
     /\ changes = cs
     /\ results = <<>>
     /\ exitCode = -1
     /\ diffBuild = "identity-chunk"
     /\ host = "cli"
     /\ rulesFile = Parsed(Doc(<<>>, <<doc.rules>>, <<>>, doc.global))
     /\ overrideDirs = <<>>
     /\ loaded = Loaded(DEFAULT_RULES)
     /\ approved = <<>>
     /\ recheck = NoResult
     /\ NoCli
     /\ NoMonitor
     /\ pc = "ready"

\* check(options): the exit code is 1 without a rules file, 0 without changes,
\* else every change is validated and any invalid result or thrown error gives 1
Check ==
  /\ pc = "ready"
  /\ \E rs \in {[i \in 1..Len(changes) |-> CheckFile(rulesFile, changes[i])]} :
     LET threw == \E i \in 1..Len(rs) : rs[i].threw
         hasErrors == \E i \in 1..Len(rs) : ~rs[i].valid
     IN IF rulesPath = <<>> \/ ~cli.git
        THEN results' = <<>> /\ exitCode' = 1 /\ report' = NoReport
        ELSE IF Len(changes) = 0
        THEN results' = <<>> /\ exitCode' = 0 /\ report' = NoReport
        ELSE IF threw
        THEN results' = <<>> /\ exitCode' = 1 /\ report' = NoReport
        ELSE /\ results' = rs
             /\ report' = Reported(checkSarif(rs, changes))
             /\ exitCode' = IF cli.output /\ ~cli.write THEN 1 ELSE ExitCode(hasErrors)
  /\ pc' = "checked"
  /\ UNCHANGED <<original, generated, rules, fileName, filesChanged, result,
                 rulesPath, changes, diffBuild, loaderVars, updaterVars, cli, monitorVars>>

NextCheck == Check

SpecCheck == InitCheck /\ [][NextCheck]_vars

(* ---------------------- both commands of the CLI ----------------------- *)
\* rules.yaml: a line limit, no limit, a pattern that is not a regular
\* expression, a pattern the original lacks next to a line limit; or a file
\* that does not parse, or none at the path given with --rules
CliRuleSets ==
  {RuleSet(<<ThresholdRule(<<1>>, <<>>, FALSE)>>, <<>>),
   RuleSet(<<ThresholdRule(<<>>, <<>>, FALSE)>>, <<>>),
   RuleSet(<<ScopeRule(<<>>, <<>>, <<bad>>)>>, <<>>),
   RuleSet(<<ScopeRule(<<>>, <<>>, << <<"z">> >>), ThresholdRule(<<1>>, <<>>, FALSE)>>, <<>>)}

CliRulesFiles ==
  {Parsed(Doc(<<>>, <<doc.rules>>, <<>>, doc.global)) : doc \in CliRuleSets}
  \cup {File("unparsable"), File("absent")}

\* one line changed, and two
CliInputs ==
  {FileChange(<<"b">>, Text(<<xLine>>, TRUE), Text(<<xLine, yLine>>, TRUE)),
   FileChange(<<"c">>, Text(<<xLine>>, TRUE), Text(<<yLine>>, TRUE))}

\* at most one thing goes wrong in a run
CliRuns ==
  {[PlainCli EXCEPT !.format = f] : f \in {"text", "json", "sarif"}}
  \cup {[PlainCli EXCEPT !.format = f, !.output = TRUE, !.write = w] :
           f \in {"text", "json", "sarif"}, w \in BOOLEAN}
  \cup {[PlainCli EXCEPT !.before = FALSE], [PlainCli EXCEPT !.after = FALSE],
         [PlainCli EXCEPT !.git = FALSE]}

\* the --before and --after files of validate are those of one changed
\* file; git lists at most MaxCliFiles files
InitCli ==
  \E cs \in {c \in ChangeSets : Len(c) <= MaxCliFiles}, fc \in CliInputs,
     f \in CliRulesFiles, run \in CliRuns,
     rp \in {<<>>, <<"rules.yaml">>}, fn \in {<<>>, <<"f">>} :
     /\ original = fc.before
     /\ generated = fc.after
     /\ rules = (IF f.state = "parsed" THEN RuleSet(f.doc.rules[1], f.doc.global)
                 ELSE RuleSet(<<>>, <<>>))
     /\ fileName = fn
     /\ filesChanged = <<>>
     /\ result = NoResult
     /\ rulesPath = rp
     /\ changes = cs
     /\ results = <<>>
     /\ exitCode = -1
     /\ diffBuild = "identity-chunk"
     /\ host = "cli"
     /\ rulesFile = f
     /\ overrideDirs = <<>>
     /\ loaded = Loaded(DEFAULT_RULES)
     /\ approved = <<>>
     /\ recheck = NoResult
     /\ cli = run
     /\ report = NoReport
     /\ NoMonitor
     /\ pc = "ready"

\* validate(options): 1 when an input file is missing, when no rules.yaml
\* is found, and when anything throws; else the rules are loaded, the two
\* texts validated and the formatted result printed or written
ValidateCmd ==
  /\ pc = "ready"
  /\ \E ld \in {IF fileName # <<>> THEN loadRulesForFile("cli", rulesFile, overrideDirs)
                 ELSE loadRulesFromPath(rulesFile)},
        name \in {IF fileName # <<>> THEN fileName ELSE <<"after">>} :
     \E res \in {validateAgainstRules(original, generated, ld.config, name, <<>>)} :
        IF ~cli.before \/ ~cli.after \/ rulesPath = <<>> \/ ld.threw
        THEN result' = NoResult /\ exitCode' = 1 /\ report' = NoReport
        ELSE IF res.threw
        THEN result' = res /\ exitCode' = 1 /\ report' = NoReport
        ELSE /\ result' = res
             /\ report' = Reported(formatSarif(res, name))
             /\ exitCode' = IF cli.output /\ ~cli.write THEN 1 ELSE ExitCode(~res.valid)
  /\ pc' = "validated-cmd"
  /\ UNCHANGED <<original, generated, rules, fileName, filesChanged,
                 rulesPath, changes, results, diffBuild, loaderVars, updaterVars, cli, monitorVars>>

NextCli == Check \/ ValidateCmd

SpecCli == InitCli /\ [][NextCli]_vars

(* ------------------------- refactor rule alone ------------------------- *)
\* comments of the three forms next to a line of code
CommentLines ==
  {L("cmt", <<"x">>, <<>>), L("cmt", <<"y">>, <<>>), L("blk", <<"x">>, <<>>),
   L("hash", <<"x">>, <<>>), L("decl", <<"x">>, <<>>)}

CommentRules ==
  {RefactorRule(<<"add_comments">>), RefactorRule(<<"comments">>),
   RefactorRule(<<"formatting", "add_comments">>)}

InitRefactor ==
  \E o \in LinesOver(CommentLines, MaxOrigLines), g \in LinesOver(CommentLines, MaxGenLines),
     r \in CommentRules :
     Start(o, g, RuleSet(<<r>>, <<>>), <<>>, <<>>)

SpecRefactor == InitRefactor /\ [][Next]_vars

(* -------------------------- scope rule alone --------------------------- *)
\* a scope rule whose pattern, functions and files are each absent, a
\* regular expression, or a string with an unbalanced parenthesis
ScopePatterns == {<<>>, <<ev>>, <<bad>>}

ScopeFunctions == {<<>>, <<ev>>, <<bad>>}

ScopeFiles == {<<>>, <<<<"*", "a">>>>, <<<<"*", "(">>>>, <<<<"a">>, <<"*", "(">>>>}

ScopeRuleSets ==
  {RuleSet(<<ScopeRule(fl, fn, pt)>>, <<>>) :
     fl \in ScopeFiles, fn \in ScopeFunctions, pt \in ScopePatterns}

InitScope ==
  \E o \in LinesOver({L("call", ev, <<>>), L("fn", ev, <<>>)}, MaxOrigLines),
     g \in LinesOver({L("call", ev, <<>>), L("fn", ev, <<>>)}, MaxOrigLines),
     rs \in ScopeRuleSets, fn \in {<<>>, <<<<"a">>>>, <<<<"b">>>>} :
     Start(o, g, rs, fn, <<>>)

SpecScope == InitScope /\ [][Next]_vars

(* ------------------------- computeDiff alone --------------------------- *)
\* every pair of texts of at most MaxDiffLines lines over two distinct lines,
\* with and without a final newline
InitDiff ==
  \E o \in TextsOver({xLine, yLine}, MaxDiffLines),
     g \in TextsOver({xLine, yLine}, MaxDiffLines) :
     Start(o, g, RuleSet(<<>>, <<>>), <<>>, <<>>)

\* one call computeDiff(original, generated); the result is kept in result.diff
ComputeDiff ==
  /\ pc = "ready"
  /\ result' = [NoResult EXCEPT !.diff = computeDiff(original, generated)]
  /\ pc' = "diffed"
  /\ UNCHANGED <<original, generated, rules, fileName, filesChanged,
                 rulesPath, changes, results, exitCode, diffBuild, loaderVars, updaterVars, cliVars, monitorVars>>

NextDiff == ComputeDiff

SpecDiff == InitDiff /\ [][NextDiff]_vars

(* ------------------------------ loaders -------------------------------- *)
GlobalFields(approval, logAll, strict) ==
  [require_approval_for_all |-> approval, log_all_interactions |-> logAll,
   strict_mode |-> strict]

\* rules with a description ("Log", '', "No content"), without one, of an
\* unknown type
LogRule == [ContentRule(<<ev>>, <<>>, "") EXCEPT !.description = << <<"L", "o", "g">> >>]

DepRule == DependenciesRule(<<>>, <<mo>>)

BlankRule == [ThresholdRule(<<1>>, <<>>, FALSE) EXCEPT !.description = << <<>> >>]

NoteRule ==
  [ScopeRule(<<>>, <<>>, <<>>) EXCEPT !.description = << <<"N", "o", " ", "content">> >>]

LintRule == [NoRule EXCEPT !.type = "lint"]

LocalRule == [ContentRule(<<dbg>>, <<>>, "") EXCEPT !.description = << <<"l", "o", "g">> >>]

\* the rules.yaml of the workspace
RulesFiles ==
  {File("absent"), File("unreadable"), File("unparsable"),
   Parsed(NoDoc), Parsed(ScalarDoc),
   Parsed(Doc(<<>>, <<>>, <<>>, <<GlobalFields(<<FALSE>>, <<>>, <<>>)>>)),
   Parsed(Doc(<<>>, << <<>> >>, <<>>, <<>>)),
   Parsed(Doc(<<>>, << <<LogRule, DepRule, BlankRule, NoteRule>> >>, <<>>,
              <<GlobalFields(<<FALSE>>, <<>>, <<TRUE>>)>>)),
   Parsed(Doc(<<>>, << <<LogRule, LintRule>> >>, <<>>, <<>>)),
   Parsed(Doc(<<>>, << <<NullRule>> >>, <<>>, <<>>))}

\* the .llm-guardrail.yaml of one directory
OverrideFiles ==
  {File("absent"), File("unreadable"), File("unparsable"),
   Parsed(NoDoc), Parsed(ScalarDoc),
   Parsed(Doc(<<>>, << <<LocalRule>> >>, << << <<"content">> >> >>, <<>>)),
   Parsed(Doc(<<FALSE>>, <<>>, << << <<"L", "O", "G">> >> >>, <<>>)),
   Parsed(Doc(<<>>, <<>>, << << <<>> >> >>, <<GlobalFields(<<>>, <<FALSE>>, <<>>)>>)),
   Parsed(Doc(<<TRUE>>, << <<LocalRule>> >>, << << <<"content">> >> >>, <<>>)),
   Parsed(Doc(<<TRUE>>, <<>>, <<>>, <<GlobalFields(<<>>, <<>>, <<TRUE>>)>>)),
   Parsed(Doc(<<FALSE>>, <<>>, <<>>, <<GlobalFields(<<TRUE>>, <<>>, <<FALSE>>)>>))}

\* the editor can run without a workspace folder, the CLI always has a path
InitLoad ==
  \E h \in {"cli", "editor"},
     f \in RulesFiles \cup {File("noworkspace")},
     dirs \in SeqsUpTo(OverrideFiles, MaxOverrides) :
     /\ (f.state = "noworkspace" => h = "editor")
     /\ original = EmptyText
     /\ generated = EmptyText
     /\ rules = RuleSet(<<>>, <<>>)
     /\ fileName = <<>>
     /\ filesChanged = <<>>
     /\ result = NoResult
     /\ rulesPath = <<>>
     /\ changes = <<>>
     /\ results = <<>>
     /\ exitCode = -1
     /\ diffBuild = "identity-chunk"
     /\ host = h
     /\ rulesFile = f
     /\ overrideDirs = dirs
     /\ loaded = Loaded(DEFAULT_RULES)
     /\ approved = <<>>
     /\ recheck = NoResult
     /\ NoCli
     /\ NoMonitor
     /\ pc = "ready"

\* one call loadRulesForFile(filePath, workspaceRoot)
Load ==
  /\ pc = "ready"
  /\ loaded' = loadRulesForFile(host, rulesFile, overrideDirs)
  /\ pc' = "loaded"
  /\ UNCHANGED <<original, generated, rules, fileName, filesChanged, result,
                 rulesPath, changes, results, exitCode, diffBuild,
                 host, rulesFile, overrideDirs, updaterVars, cliVars, monitorVars>>

NextLoad == Load

SpecLoad == InitLoad /\ [][NextLoad]_vars

(* ------------------------- exception round trip ------------------------ *)
\* added imports of two packages and of a builtin module, and a forbidden call
ExceptionLines ==
  {L("es6", mo, mo), L("req", <<>>, lo), L("req", <<>>, fs), L("call", ev, <<>>)}

\* rules.yaml: dependency rules with the package forbidden once, twice, or
\* next to another name, with and without an allowed list; a content rule
ExceptionRules ==
  {DependenciesRule(al, fb) : al \in {<<>>, <<lo>>},
                              fb \in {<<mo>>, <<mo, mo>>, <<fs, mo>>}}
  \cup {ContentRule(<<ev>>, <<ev>>, "")}

InitException ==
  \E g \in LinesOver(ExceptionLines, MaxGenLines),
     rs \in SeqsUpTo(ExceptionRules, MaxRules) \ {<<>>},
     rp \in {<<>>, <<"rules.yaml">>} :
     /\ original = EmptyText
     /\ generated = g
     /\ rules = RuleSet(rs, <<>>)
     /\ fileName = <<>>
     /\ filesChanged = <<>>
     /\ result = NoResult
     /\ rulesPath = rp
     /\ changes = <<>>
     /\ results = <<>>
     /\ exitCode = -1
     /\ diffBuild = "identity-chunk"
     /\ NoLoad
     /\ pc = "ready"

\* the approval handler: the violations of the current validation, when
\* there are any, go to addExceptionsToRules.  One violation alone is also
\* handed over, as a caller approving a single finding does.
Approve ==
  /\ pc = "validated"
  /\ ~result.threw
  /\ Len(result.violations) > 0
  /\ \E vs \in {result.violations} \cup
               {<<result.violations[i]>> : i \in 1..Len(result.violations)} :
       /\ approved' = vs
       /\ rules' = addExceptionsToRules(rulesPath, rules, vs).rules
  /\ pc' = "approved"
  /\ UNCHANGED <<original, generated, fileName, filesChanged, result,
                 rulesPath, changes, results, exitCode, diffBuild, loaderVars, recheck, cliVars, monitorVars>>

\* the same texts are evaluated against the updated rules
Revalidate ==
  /\ pc = "approved"
  /\ recheck' = validateAgainstRules(original, generated, rules, fileName, filesChanged)
  /\ pc' = "revalidated"
  /\ UNCHANGED <<original, generated, rules, fileName, filesChanged, result,
                 rulesPath, changes, results, exitCode, diffBuild, loaderVars,
                 approved, cliVars, monitorVars>>

NextException == Validate \/ Approve \/ Revalidate

SpecException == InitException /\ [][NextException]_vars

(* --------------------------- change monitor ---------------------------- *)
\* the monitor has started in a workspace with no document open
InitMonitor ==
  \E en \in BOOLEAN, ar \in BOOLEAN :
     /\ original = EmptyText
     /\ generated = EmptyText
     /\ rules = RuleSet(<<>>, <<>>)
     /\ fileName = <<>>
     /\ filesChanged = <<>>
     /\ result = NoResult
     /\ rulesPath = <<>>
     /\ changes = <<>>
     /\ results = <<>>
     /\ exitCode = -1
     /\ diffBuild = "identity-chunk"
     /\ host = "editor"
     /\ rulesFile = File("absent")
     /\ overrideDirs = <<>>
     /\ loaded = Loaded(DEFAULT_RULES)
     /\ approved = <<>>
     /\ recheck = NoResult
     /\ NoCli
     /\ monitor = NewMonitor(en, ar)
     /\ workspace = [text |-> [u \in Uris |-> <<>>], open |-> {}]
     /\ calls = <<>>
     /\ log = [rejections |-> <<>>, enabled |-> en]
     /\ pc = "monitoring"

Monitoring == pc = "monitoring"

Open(u) ==
  /\ Monitoring
  /\ u \notin workspace.open
  /\ workspace' = [workspace EXCEPT !.open = @ \cup {u}]
  /\ monitor' = onDidOpen(monitor, u, workspace.text[u])
  /\ UNCHANGED <<calls, log, otherVars>>

Close(u) ==
  /\ Monitoring
  /\ u \in workspace.open
  /\ workspace' = [workspace EXCEPT !.open = @ \ {u}]
  /\ monitor' = onDidClose(monitor, u)
  /\ UNCHANGED <<calls, log, otherVars>>

\* the user or an assistant edits an open document
Change(u, text) ==
  /\ Monitoring
  /\ u \in workspace.open
  /\ text # workspace.text[u]
  /\ workspace' = [workspace EXCEPT !.text[u] = text]
  /\ monitor' = handleDocumentChange(monitor, u, text)
  /\ UNCHANGED <<calls, log, otherVars>>

\* the debounce timer of a document fires
Fire(u, expired) ==
  /\ Monitoring
  /\ monitor.debounceTimers[u] = "waiting"
  /\ monitor' = processChange([monitor EXCEPT !.debounceTimers[u] = "fired"], u,
                              workspace.text[u], expired)
  /\ UNCHANGED <<workspace, calls, log, otherVars>>

\* the batch timer fires
BatchTimer ==
  /\ Monitoring
  /\ monitor.currentBatch # <<>>
  /\ monitor' = [monitor EXCEPT !.currentBatch = <<>>]
  /\ UNCHANGED <<workspace, calls, log, otherVars>>

Save(u) ==
  /\ Monitoring
  /\ u \in workspace.open
  /\ monitor' = onDidSave(monitor, u, workspace.text[u])
  /\ UNCHANGED <<workspace, calls, log, otherVars>>

ApproveChange(u) ==
  /\ Monitoring
  /\ monitor' = approveChange(monitor, u)
  /\ UNCHANGED <<workspace, calls, log, otherVars>>

\* rejectChange(u) up to await openTextDocument
RejectChange(u) ==
  /\ Monitoring
  /\ LET stamp == Len(log.rejections) + 1
         r == rejectChange(monitor, u, stamp)
     IN /\ r.returns \/ (Len(log.rejections) < MaxRejections /\ Len(calls) < MaxCalls)
        /\ monitor' = r.monitor
        /\ IF r.returns THEN UNCHANGED <<calls, log>>
           ELSE /\ calls' = Append(calls, Call("reject", u, "editing", monitor.enabled,
                                               r.monitor.rejectedChanges[u][1]))
                /\ log' = [log EXCEPT !.rejections =
                             Append(@, [documentUri |-> u, timestamp |-> stamp,
                                        undone |-> FALSE])]
  /\ UNCHANGED <<workspace, otherVars>>

\* the rest of rejectChange: the document is opened and the edit applied
\* (success), refused (applyEdit resolves to false) or an error is thrown;
\* the finally block runs in each case.  Nothing of the monitor is touched
\* between the two awaits.
RejectChangeDone(i, outcome) ==
  /\ Monitoring
  /\ i \in 1..Len(calls)
  /\ calls[i].op = "reject"
  /\ LET u == calls[i].uri
         text == calls[i].change.originalContent
         opened == IF u \in workspace.open THEN monitor
                   ELSE onDidOpen(monitor, u, workspace.text[u])
         edited == Edited(opened, u, workspace.text[u], text)
     IN IF outcome = "applied"
        THEN /\ workspace' = [workspace EXCEPT !.text[u] = text, !.open = @ \cup {u}]
             /\ monitor' = [edited EXCEPT !.documentSnapshots[u] = <<text>>,
                                          !.enabled = calls[i].wasEnabled]
        ELSE /\ workspace' = workspace
             /\ monitor' = [monitor EXCEPT !.enabled = calls[i].wasEnabled]
  /\ calls' = RemoveAt(calls, i)
  /\ UNCHANGED <<log, otherVars>>

\* undoRejection(u) up to its first await.  The editor of the document is
\* visible and active, or has to be opened and shown first, or cannot be
\* made the active one.
undoRejection(u, editor) ==
  /\ Monitoring
  /\ IF monitor.rejectedChanges[u] = <<>> \/ editor = "none"
     THEN UNCHANGED <<monitor, calls>>
     ELSE /\ Len(calls) < MaxCalls
          /\ editor = "active" => u \in workspace.open
          /\ IF editor = "active"
             THEN /\ monitor' = [monitor EXCEPT !.enabled = FALSE]
                  /\ calls' = Append(calls, Call("undo", u, "editing", monitor.enabled,
                                                 monitor.rejectedChanges[u][1]))
             ELSE /\ monitor' = monitor
                  /\ calls' = Append(calls, Call("undo", u, "showing", FALSE,
                                                 monitor.rejectedChanges[u][1]))
  /\ UNCHANGED <<workspace, log, otherVars>>

UndoRejection(u, editor) == undoRejection(u, editor)

\* undoLastRejection()
UndoLastRejection(editor) ==
  IF Len(monitor.rejectionHistory) = 0
  THEN Monitoring /\ UNCHANGED vars
  ELSE undoRejection(monitor.rejectionHistory[1].documentUri, editor)

\* openTextDocument and showTextDocument have resolved, or one has thrown
UndoShown(i, shown) ==
  /\ Monitoring
  /\ i \in 1..Len(calls)
  /\ calls[i].op = "undo" /\ calls[i].at = "showing"
  /\ LET u == calls[i].uri
     IN IF shown
        THEN /\ workspace' = [workspace EXCEPT !.open = @ \cup {u}]
             /\ monitor' = [(IF u \in workspace.open THEN monitor
                             ELSE onDidOpen(monitor, u, workspace.text[u]))
                            EXCEPT !.enabled = FALSE]
             /\ calls' = [calls EXCEPT ![i].at = "editing", ![i].wasEnabled = monitor.enabled]
        ELSE /\ calls' = RemoveAt(calls, i)
             /\ UNCHANGED <<monitor, workspace>>
  /\ UNCHANGED <<log, otherVars>>

\* the rest of undoRejection: the edit is applied, refused (edit resolves
\* to false) or rejected with an error, which leaves the function at once
UndoRejectionDone(i, outcome) ==
  /\ Monitoring
  /\ i \in 1..Len(calls)
  /\ calls[i].op = "undo" /\ calls[i].at = "editing"
  /\ LET u == calls[i].uri
         text == calls[i].change.rejectedContent
         edited == IF outcome = "applied" THEN Edited(monitor, u, workspace.text[u], text)
                   ELSE monitor
     IN IF outcome = "threw"
        THEN UNCHANGED <<monitor, workspace, log>>
        ELSE /\ workspace' = (IF outcome = "applied"
                              THEN [workspace EXCEPT !.text[u] = text] ELSE workspace)
             /\ monitor' = [edited EXCEPT !.enabled = calls[i].wasEnabled,
                                          !.documentSnapshots[u] = <<text>>,
                                          !.rejectedChanges[u] = <<>>,
                                          !.rejectionHistory = WithoutUri(@, u)]
             /\ log' = [log EXCEPT !.rejections =
                          [k \in 1..Len(@) |->
                             IF @[k].timestamp = calls[i].change.timestamp
                             THEN [@[k] EXCEPT !.undone = TRUE] ELSE @[k]]]
  /\ calls' = RemoveAt(calls, i)
  /\ UNCHANGED otherVars

\* clearRejectionHistory(): the record of rejections starts anew
ClearRejectionHistory ==
  /\ Monitoring
  /\ monitor' = [monitor EXCEPT !.rejectedChanges = [u \in Uris |-> <<>>],
                                !.rejectionHistory = <<>>]
  /\ log' = [log EXCEPT !.rejections =
               [k \in 1..Len(@) |-> [@[k] EXCEPT !.undone = TRUE]]]
  /\ UNCHANGED <<workspace, calls, otherVars>>

Outcomes == {"applied", "refused", "threw"}

Editors == {"active", "opens", "none"}

NextMonitor ==
  \/ \E u \in Uris : Open(u)
  \/ \E u \in Uris : Close(u)
  \/ \E u \in Uris, text \in Contents : Change(u, text)
  \/ \E u \in Uris, expired \in BOOLEAN : Fire(u, expired)
  \/ BatchTimer
  \/ \E u \in Uris : Save(u)
  \/ \E u \in Uris : ApproveChange(u)
  \/ \E u \in Uris : RejectChange(u)
  \/ \E i \in 1..MaxCalls, outcome \in Outcomes : RejectChangeDone(i, outcome)
  \/ \E u \in Uris, editor \in Editors : UndoRejection(u, editor)
  \/ \E editor \in Editors : UndoLastRejection(editor)
  \/ \E i \in 1..MaxCalls, shown \in BOOLEAN : UndoShown(i, shown)
  \/ \E i \in 1..MaxCalls, outcome \in Outcomes : UndoRejectionDone(i, outcome)
  \/ ClearRejectionHistory

SpecMonitor == InitMonitor /\ [][NextMonitor]_vars

(* ------------------------------- claims -------------------------------- *)
Returned == pc = "validated" /\ ~result.threw

CountOf(seq, Test(_)) == Cardinality({i \in 1..Len(seq) : Test(seq[i])})

HasViolation(description) ==
  \E i \in 1..Len(result.violations) : result.violations[i].description = description

\* the added text of the diff in the returned result
AddedText == ContentOfType(result.diff, "added")

AddedImports == NewImports(LinesOfType(result.diff, "added"))

Covered(list, name) ==
  \E i \in 1..Len(list) : name = list[i] \/ StartsWith(name, list[i] \o <<"/">>)

Exempt(name) == StartsWith(name, <<".">>) \/ name \in Range(builtins)

\* C1: the result of validateAgainstRules has valid = true if and only if no
\* violation of its list has severity error; warnings alone leave it valid.
C1_ValidIffNoError ==
  Returned =>
    (result.valid <=> \A i \in 1..Len(result.violations) :
                         result.violations[i].severity # "error")

C1_Witness ==
  /\ Returned
  /\ result.valid
  /\ \E i \in 1..Len(result.violations) : result.violations[i].severity = "warning"

\* C2: every rule is dispatched exactly once, in declaration order: the
\* violations of the rule at position i, exactly as its checker returns them,
\* precede those of every rule at a position j > i.
C2_DeclarationOrder ==
  Returned =>
    /\ \A k, l \in 1..Len(result.violations) :
         k < l => result.violations[k].rule <= result.violations[l].rule
    /\ \A ri \in 1..Len(rules.rules) :
         SelectSeq(result.violations, LAMBDA v : v.rule = ri)
           = DispatchRule(rules.rules[ri], ri, original, generated, result.diff,
                          fileName, filesChanged).violations

C2_Witness ==
  /\ Returned
  /\ Len(rules.rules) = 2
  /\ rules.rules[1].type # rules.rules[2].type
  /\ \E k, l \in 1..Len(result.violations) :
       result.violations[k].rule = 1 /\ result.violations[l].rule = 2

\* C3: requiresApproval is true exactly when global.require_approval_for_all
\* is true, or absent (no global block or no such field), or some threshold
\* rule of the rule set has require_approval = true.
C3_RequiresApproval ==
  Returned =>
    (result.requiresApproval <=>
       \/ rules.global = <<>>
       \/ rules.global # <<>> /\ rules.global[1].require_approval_for_all # <<FALSE>>
       \/ \E ri \in 1..Len(rules.rules) :
            rules.rules[ri].type = "threshold" /\ rules.rules[ri].require_approval)

C3_Witness ==
  /\ Returned
  /\ rules.global = <<GlobalOf(<<FALSE>>)>>
  /\ result.requiresApproval

\* C4 (as claimed): a deny pattern of a content rule produces an error
\* violation exactly when it has more matches in the generated text than in
\* the original text.
C4_DenyCountsGenerated ==
  Returned =>
    \A ri \in 1..Len(rules.rules) :
      rules.rules[ri].type = "content" =>
        \A j \in 1..Len(rules.rules[ri].deny) :
          LET p == rules.rules[ri].deny[j]
          IN ~InvalidRegex(p) =>
               ((\E i \in 1..Len(result.violations) :
                    /\ result.violations[i].rule = ri
                    /\ result.violations[i].description = "Forbidden pattern detected"
                    /\ result.violations[i].severity = "error"
                    /\ result.violations[i].details.arg = p)
                <=> MatchCount(RenderText(generated), p) > MatchCount(RenderText(original), p))

\* C5: each forbid literal of a content rule that occurs in the added text
\* and nowhere in the original text produces exactly one error violation of
\* type content; a literal the original text holds produces none.
C5_ForbidLiteral ==
  Returned =>
    \A ri \in 1..Len(rules.rules) :
      rules.rules[ri].type = "content" =>
        \A j \in 1..Len(rules.rules[ri].forbid) :
          LET lit == rules.rules[ri].forbid[j]
              entries == CountOf(rules.rules[ri].forbid, LAMBDA f : f = lit)
              found == CountOf(result.violations,
                         LAMBDA v : /\ v.rule = ri
                                    /\ v.ruleType = "content"
                                    /\ v.severity = "error"
                                    /\ v.description = "Forbidden content added"
                                    /\ v.details.arg = lit)
          IN /\ Includes(AddedText, lit) /\ ~Includes(RenderText(original), lit)
                  => found = entries
             /\ Includes(RenderText(original), lit) => found = 0
             /\ ~Includes(AddedText, lit) => found = 0

C5_Witness ==
  /\ Returned
  /\ HasViolation("Forbidden content added")
  /\ \E ri \in 1..Len(rules.rules) : \E j \in 1..Len(rules.rules[ri].forbid) :
       /\ Includes(AddedText, rules.rules[ri].forbid[j])
       /\ Includes(RenderText(original), rules.rules[ri].forbid[j])

DepViolations(ri, description, name) ==
  CountOf(result.violations,
          LAMBDA v : /\ v.rule = ri
                     /\ v.ruleType = "dependencies"
                     /\ v.severity = "error"
                     /\ v.description = description
                     /\ v.details.arg = name)

\* C6: for a dependencies rule, every package name extracted from the added
\* imports (relative and builtin names apart) yields one error violation if
\* the allowed list is non-empty and does not cover it, and one if the
\* forbidden list covers it; a name that is allowed and not forbidden yields
\* none.  A list covers a name equal to an entry or starting with entry + '/'.
C6_AllowedAndForbidden ==
  Returned =>
    \A ri \in 1..Len(rules.rules) :
      rules.rules[ri].type = "dependencies" =>
        \A k \in 1..Len(AddedImports) :
          LET name == AddedImports[k]
              allowed == rules.rules[ri].allowed
              forbidden == rules.rules[ri].forbidden
          IN ~Exempt(name) =>
               /\ DepViolations(ri, "Unauthorized dependency added", name)
                    = (IF Len(allowed) > 0 /\ ~Covered(allowed, name) THEN 1 ELSE 0)
               /\ DepViolations(ri, "Forbidden dependency added", name)
                    = (IF Covered(forbidden, name) THEN 1 ELSE 0)
               /\ (Covered(allowed, name) /\ ~Covered(forbidden, name)) =>
                    \A i \in 1..Len(result.violations) :
                       result.violations[i].rule = ri
                         => result.violations[i].details.arg # name

C6_Witness ==
  /\ Returned
  /\ HasViolation("Unauthorized dependency added")
  /\ HasViolation("Forbidden dependency added")
  /\ \E k \in 1..Len(AddedImports) :
       /\ Covered(rules.rules[1].allowed, AddedImports[k])
       /\ ~Covered(rules.rules[1].forbidden, AddedImports[k])

\* C7 (as claimed): relative imports and the builtin module names never
\* produce a dependency violation, through neither list.
C7_ExemptNeverFlagged ==
  Returned =>
    \A i \in 1..Len(result.violations) :
      result.violations[i].ruleType = "dependencies"
        => ~Exempt(result.violations[i].details.arg)

\* C7 (amended): relative imports and the builtin module names never produce
\* an 'Unauthorized dependency added' violation, whatever the allowed list
\* holds; the forbidden list applies to them as to any other name, so each
\* such name a forbidden list covers yields one 'Forbidden dependency added'.
C7_ExemptFromAllowedOnly ==
  Returned =>
    /\ \A i \in 1..Len(result.violations) :
         result.violations[i].description = "Unauthorized dependency added"
           => ~Exempt(result.violations[i].details.arg)
    /\ \A ri \in 1..Len(rules.rules) :
         rules.rules[ri].type = "dependencies" =>
           \A k \in 1..Len(AddedImports) :
             Exempt(AddedImports[k]) =>
               DepViolations(ri, "Forbidden dependency added", AddedImports[k])
                 = (IF Covered(rules.rules[ri].forbidden, AddedImports[k]) THEN 1 ELSE 0)

C7_Witness ==
  /\ Returned
  /\ rules.rules[1].type = "dependencies"
  /\ Len(rules.rules[1].allowed) > 0
  /\ \E k \in 1..Len(AddedImports) :
       /\ AddedImports[k] \in Range(builtins)
       /\ ~Covered(rules.rules[1].allowed, AddedImports[k])
  /\ \E k \in 1..Len(AddedImports) :
       /\ StartsWith(AddedImports[k], <<".">>)
       /\ ~Covered(rules.rules[1].allowed, AddedImports[k])
       /\ Covered(rules.rules[1].forbidden, AddedImports[k])

ThresholdViolations(ri, description) ==
  CountOf(result.violations,
          LAMBDA v : /\ v.rule = ri
                     /\ v.ruleType = "threshold"
                     /\ v.severity = "error"
                     /\ v.description = description)

C8_WitnessAtLimit ==
  /\ Returned
  /\ rules.rules[1].type = "threshold"
  /\ rules.rules[1].max_lines_changed = <<result.diff.totalLinesChanged>>
  /\ rules.rules[1].max_files_changed = filesChanged
  /\ filesChanged # <<>>
  /\ result.violations = <<>>

\* C9 (as claimed): the check command enforces max_files_changed: when the
\* change set holds more files than a threshold rule's max_files_changed, it
\* reports an error violation for it and exits with code 1.
C9_CheckEnforcesMaxFiles ==
  (/\ pc = "checked"
   /\ rulesPath # <<>>
   /\ \E ri \in 1..Len(rules.rules) :
        /\ rules.rules[ri].type = "threshold"
        /\ rules.rules[ri].max_files_changed # <<>>
        /\ Len(changes) > rules.rules[ri].max_files_changed[1])
  => /\ exitCode = 1
     /\ \E f \in 1..Len(results) : \E i \in 1..Len(results[f].violations) :
          /\ results[f].violations[i].description = "Too many files changed"
          /\ results[f].violations[i].severity = "error"

\* the rule set with every deny entry that is not a regular expression removed
WithoutInvalidDeny(rs) ==
  [rs EXCEPT !.rules =
     [ri \in 1..Len(rs.rules) |->
        [rs.rules[ri] EXCEPT !.deny = SelectSeq(@, LAMBDA p : ~InvalidRegex(p))]]]

\* C10: an invalid regular expression among the deny patterns of a content
\* rule is skipped: validateAgainstRules returns a result, and it is the
\* result the same call returns for the rule set without the invalid entries.
C10_InvalidDenySkipped ==
  pc = "validated" =>
    /\ result = validateAgainstRules(original, generated, WithoutInvalidDeny(rules),
                                     fileName, filesChanged)
    /\ (\A ri \in 1..Len(rules.rules) : rules.rules[ri].type # "scope") => ~result.threw

C10_Witness ==
  /\ Returned
  /\ Len(rules.rules) = 2
  /\ rules.rules[1].deny = <<ev, bad, dbg>>
  /\ \E i \in 1..Len(result.violations) :
       /\ result.violations[i].rule = 1
       /\ result.violations[i].details.arg = dbg
  /\ \E i \in 1..Len(result.violations) : result.violations[i].rule = 2

Groups == result.diff.changes

RECURSIVE CountSum(_, _)
CountSum(n, types) ==
  IF n = 0 THEN 0
  ELSE CountSum(n - 1, types) + (IF Groups[n].type \in types THEN Groups[n].count ELSE 0)

C13_TotalIsSum ==
  pc = "diffed" =>
    /\ result.diff.linesAdded = CountSum(Len(Groups), {"added"})
    /\ result.diff.linesRemoved = CountSum(Len(Groups), {"removed"})
    /\ result.diff.totalLinesChanged = result.diff.linesAdded + result.diff.linesRemoved

C13_Witness ==
  /\ pc = "diffed"
  /\ result.diff.linesAdded = 2
  /\ result.diff.linesRemoved = 1
  /\ result.diff.totalLinesChanged = 3
  /\ Cardinality({i \in 1..Len(Groups) : Groups[i].type = "added"}) = 2

\* C14: every group's lineNumber is 1 plus the counts of the earlier added
\* and unchanged groups: the cursor starts at 1, advances by the count of an
\* added or unchanged group and stays in place over a removed group.
C14_CursorWalk ==
  pc = "diffed" =>
    \A i \in 1..Len(Groups) :
      Groups[i].lineNumber = 1 + CountSum(i - 1, {"added", "unchanged"})

\* a removed group of two lines between an unchanged group and an added one
C14_Witness ==
  /\ pc = "diffed"
  /\ \E i \in 2..(Len(Groups) - 1) :
       /\ Groups[i - 1].type = "unchanged"
       /\ Groups[i].type = "removed" /\ Groups[i].count = 2
       /\ Groups[i + 1].type = "added"
       /\ Groups[i].lineNumber = Groups[i + 1].lineNumber
       /\ Groups[i].lineNumber = 1 + Groups[i - 1].count

\* ---- the loaders
BaseLoaded == IF host = "cli" THEN loadRulesFromPath(rulesFile) ELSE loadRules(rulesFile)

\* the override files that are read, parsed and not empty, root first
WellFormed(f) == f.state = "parsed" /\ f.doc.kind # "null"

LastApplied ==
  CHOOSE i \in 0..Len(overrideDirs) :
    /\ i > 0 => WellFormed(overrideDirs[i])
    /\ \A j \in (i + 1)..Len(overrideDirs) : ~WellFormed(overrideDirs[j])

LastOverride == overrideDirs[LastApplied].doc

\* the rule set accumulated before the last override is applied
Accumulated ==
  loadRulesForFile(host, rulesFile, SubSeq(overrideDirs, 1, LastApplied - 1)).config

OverrideActs ==
  pc = "loaded" /\ ~loaded.threw /\ rulesFile.state # "noworkspace" /\ LastApplied > 0

Overlay(base, over) ==
  [require_approval_for_all |->
     IF over # <<>> /\ over[1].require_approval_for_all # <<>>
     THEN over[1].require_approval_for_all ELSE base.require_approval_for_all,
   log_all_interactions |->
     IF over # <<>> /\ over[1].log_all_interactions # <<>>
     THEN over[1].log_all_interactions ELSE base.log_all_interactions,
   strict_mode |->
     IF over # <<>> /\ over[1].strict_mode # <<>>
     THEN over[1].strict_mode ELSE base.strict_mode]

OwnRules(override) == IF override.rules = <<>> THEN <<>> ELSE override.rules[1]

\* C15: loading the base policy document never fails the caller: an absent,
\* unreadable or unparsable file, or one without a rules field, gives the
\* default RuleSet, with loadRules as with loadRulesFromPath.
C15_BaseLoadNeverFails ==
  pc = "loaded" =>
    /\ ~loaded.threw
    /\ ((/\ findOverrideFiles(overrideDirs) = <<>>
         /\ \/ rulesFile.state # "parsed"
            \/ rulesFile.doc.kind # "object"
            \/ rulesFile.doc.rules = <<>>)
        => loaded.config = DEFAULT_RULES)

\* C16: an override with replace = true discards the accumulated rule set,
\* whatever its disable list: the rules are override.rules (or none) and the
\* globals are the defaults overlaid with override.global.
C16_ReplaceDiscards ==
  (OverrideActs /\ LastOverride.replace = <<TRUE>>) =>
    /\ loaded.config.rules = OwnRules(LastOverride)
    /\ loaded.config.global = <<Overlay(DEFAULT_GLOBAL, LastOverride.global)>>

\* a replacing override with a disable list, over accumulated rules and over
\* accumulated globals that are not the defaults
C16_Witness ==
  /\ OverrideActs
  /\ LastOverride.replace = <<TRUE>>
  /\ LastOverride.disable # <<>>
  /\ Len(Accumulated.rules) > 1
  /\ Accumulated.global # <<DEFAULT_GLOBAL>>
  /\ loaded.config.rules = <<LocalRule>>
  /\ loaded.config.global = <<DEFAULT_GLOBAL>>

\* a rule the disable list names, as the merge is described: its type equals
\* a disable string, or its description contains one case-insensitively
NamedBy(rule, disable) ==
  \E i \in 1..Len(disable) :
    \/ disable[i] = <<rule.type>>
    \/ /\ rule.description # <<>>
       /\ Includes(LowerCase(rule.description[1]), LowerCase(disable[i]))

\* the same, for a rule whose description is not empty
NamedByNonEmpty(rule, disable) ==
  \E i \in 1..Len(disable) :
    \/ disable[i] = <<rule.type>>
    \/ /\ rule.description # <<>>
       /\ rule.description[1] # <<>>
       /\ Includes(LowerCase(rule.description[1]), LowerCase(disable[i]))

TheDisable == IF LastOverride.disable = <<>> THEN <<>> ELSE LastOverride.disable[1]

C17_WitnessCase ==
  /\ OverrideActs
  /\ LastOverride.replace # <<TRUE>>
  /\ Accumulated.rules = <<LogRule, DepRule, BlankRule, NoteRule>>
  /\ TheDisable = << <<"L", "O", "G">> >>
  /\ loaded.config.rules = <<DepRule, BlankRule, NoteRule>>

\* a merge by type that appends a rule of the disabled type and drops a rule
\* of another type whose description holds the disable string
C17_WitnessOwnRules ==
  /\ OverrideActs
  /\ Accumulated.rules = <<LogRule, DepRule, BlankRule, NoteRule>>
  /\ TheDisable = << <<"content">> >>
  /\ loaded.config.rules = <<DepRule, BlankRule, LocalRule>>
  /\ loaded.config.global = Accumulated.global

RECURSIVE ApplyInOrder(_, _)
ApplyInOrder(config, files) ==
  IF files = <<>> THEN config
  ELSE ApplyInOrder(applyRulesOverride(config, Head(files).doc), Tail(files))

C18_WitnessOrder ==
  /\ pc = "loaded"
  /\ ~loaded.threw
  /\ Len(overrideDirs) = 2
  /\ WellFormed(overrideDirs[1]) /\ WellFormed(overrideDirs[2])
  /\ loaded.config #
       ApplyInOrder(BaseLoaded.config, <<overrideDirs[2], overrideDirs[1]>>)

\* C19: every RuleSet returned by loadRulesFromPath or loadRulesForFile passes
\* validateRulesConfig: a document with an unknown or malformed rule type is
\* never the effective policy.
C19_LoadedPassesValidation ==
  (pc = "loaded" /\ ~loaded.threw) => validateRulesConfig(loaded.config)

\* ---- the exception updater
\* violation v names package x and its rule had x in its forbidden list when
\* the texts were first evaluated
AgainstForbidden(v, x) ==
  /\ v.ruleType = "dependencies"
  /\ v.details.arg = x
  /\ \E j \in 1..Len(result.violations) :
       /\ result.violations[j].description = "Forbidden dependency added"
       /\ result.violations[j].rule = v.rule
       /\ result.violations[j].details.arg = x

StillFlagged(x) ==
  \E k \in 1..Len(recheck.violations) :
    /\ recheck.violations[k].ruleType = "dependencies"
    /\ recheck.violations[k].details.arg = x

\* C20: a dependencies violation for package X against a rule whose forbidden
\* list contains X, once passed to addExceptionsToRules, is gone: evaluating
\* the same texts against the updated rule set reports no dependencies
\* violation for X.
C20_ExceptionRoundTrip ==
  (pc = "revalidated" /\ rulesPath # <<>>) =>
    \A i \in 1..Len(approved) :
      AgainstForbidden(approved[i], approved[i].details.arg)
        => ~StillFlagged(approved[i].details.arg)

\* C21: for an approved dependencies violation naming package X,
\* addExceptionsToRules adds X to the allowed list without a duplicate and
\* removes X from the forbidden list of the rule that produced the violation,
\* and leaves every other rule of the document unchanged.
C21_OnlyTheViolatedRule ==
  [][(/\ pc = "validated" /\ pc' = "approved"
      /\ rulesPath # <<>>
      /\ Len(approved') = 1
      /\ approved'[1].ruleType = "dependencies")
     => LET x == approved'[1].details.arg
            r == approved'[1].rule
        IN /\ rules'.rules[r].allowed =
                IF x \in Range(rules.rules[r].allowed) THEN rules.rules[r].allowed
                ELSE Append(rules.rules[r].allowed, x)
           /\ x \notin Range(rules'.rules[r].forbidden)
           /\ \A j \in 1..Len(rules.rules) : j # r => rules'.rules[j] = rules.rules[j]]_vars

\* what an evaluation flags: the import names, forbidden literals and deny
\* patterns of its dependencies and content violations
Flagged(res) ==
  {<<res.violations[k].ruleType, res.violations[k].details.arg>> :
     k \in {i \in 1..Len(res.violations) :
              res.violations[i].ruleType \in {"dependencies", "content"}}}

\* C27: approving an exception never tightens the policy: whatever is flagged
\* when the same texts are evaluated against the updated rule set was already
\* flagged against the rule set before the update.
C27_NeverTightens ==
  pc = "revalidated" => Flagged(recheck) \subseteq Flagged(result)

\* what makes validate fail before or after the validation itself
ValidateError ==
  \/ ~cli.before \/ ~cli.after
  \/ rulesPath = <<>>
  \/ rulesFile.state \notin {"parsed", "absent"}
  \/ result.threw
  \/ cli.output /\ ~cli.write

\* what makes check fail: the rules and the output are only reached when
\* there are changes
CheckError ==
  \/ rulesPath = <<>>
  \/ ~cli.git
  \/ /\ changes # <<>>
     /\ \/ rulesFile.state \notin {"parsed", "absent"}
        \/ \E i \in 1..Len(changes) : CheckFile(rulesFile, changes[i]).threw
        \/ cli.output /\ ~cli.write

\* C22: validate exits with 0 exactly when nothing fails and the result is
\* valid, and with 1 otherwise; check exits with 0 exactly when nothing fails
\* and there are no changes or every file's result is valid, and with 1
\* otherwise
C22_ExitCodes ==
  /\ pc = "validated-cmd" =>
        /\ exitCode \in {0, 1}
        /\ exitCode = 0 <=> (~ValidateError /\ result.valid)
  /\ pc = "checked" =>
        /\ exitCode \in {0, 1}
        /\ exitCode = 0 <=>
             (~CheckError /\ (changes = <<>> \/ \A i \in 1..Len(results) : results[i].valid))

\* check passes two changed files
C22_Witness ==
  /\ pc = "checked" /\ exitCode = 0 /\ Len(results) = 2
  /\ \A i \in 1..Len(results) : results[i].valid

\* validate finds the change invalid
C22_WitnessInvalid ==
  pc = "validated-cmd" /\ exitCode = 1 /\ ~ValidateError /\ ~result.valid

\* validate passes, check fails on one file of two, the rules fail to load
C22_WitnessValid == pc = "validated-cmd" /\ exitCode = 0 /\ result.valid

C22_WitnessOneInvalid ==
  /\ pc = "checked" /\ exitCode = 1 /\ Len(results) = 2
  /\ results[1].valid /\ ~results[2].valid

C22_WitnessLoadFails ==
  /\ pc = "validated-cmd" /\ exitCode = 1 /\ rulesFile.state = "unparsable"
  /\ rulesPath # <<>> /\ cli = PlainCli

\* the violations a report is about, in order
Reported_Violations ==
  IF pc = "checked"
  THEN LET all == AllViolations(results, changes) IN [i \in 1..Len(all) |-> all[i].v]
  ELSE result.violations

\* C23: a SARIF report holds one result per violation, in order, with the
\* rule kind as ruleId, the severity as level, the details (else the
\* description) as message text and the first line number (else 1) as
\* startLine, for validate and for check
C23_SarifPerViolation ==
  report.produced =>
    /\ Len(report.results) = Len(Reported_Violations)
    /\ \A i \in 1..Len(report.results) :
         LET row == report.results[i]
             v == Reported_Violations[i]
         IN /\ row.ruleId = RuleId(v.ruleType, <<>>)
            /\ row.level = v.severity
            /\ row.text = (IF v.details.tpl # "" THEN v.details
                           ELSE [tpl |-> v.description, arg |-> <<>>, list |-> <<>>,
                                 nums |-> <<>>])
            /\ Len(row.locations) = 1
            /\ row.locations[1].startLine =
                 (IF Len(v.lineNumbers) > 0 THEN v.lineNumbers[1] ELSE 1)

\* the same for the report of check alone
C23_CheckReport == (pc = "checked") => C23_SarifPerViolation

C23_CheckReportWitness ==
  /\ pc = "checked" /\ report.produced /\ Len(report.results) >= 2
  /\ \E i, j \in 1..Len(report.results) : report.results[i].level # report.results[j].level

\* the number of comments of one form in a text
CommentCount(t, form) == Cardinality({i \in 1..Len(t.lines) : t.lines[i].k = form})

ForbidsComments(rule) ==
  /\ rule.type = "refactor"
  /\ \E a \in 1..Len(rule.actions) : ToLowerCase(rule.actions[a]) \in {"add_comments", "comments"}

CommentsFlagged(ri) ==
  \E k \in 1..Len(result.violations) :
     /\ result.violations[k].rule = ri
     /\ result.violations[k].description = "Unsolicited comments added"

\* C25: a refactor rule that forbids add_comments warns exactly when some
\* comment form occurs more often in the generated text than in the
\* original, a further comment of a form the original has included
C25_MoreCommentsFlagged ==
  (pc = "validated" /\ ~result.threw) =>
    \A ri \in 1..Len(rules.rules) :
       ForbidsComments(rules.rules[ri]) =>
         (CommentsFlagged(ri) <=>
            \E form \in {"cmt", "blk", "hash"} :
               CommentCount(generated, form) > CommentCount(original, form))

\* C30: for a rule set that validateRulesConfig accepts, and any two texts,
\* validateAgainstRules returns a result and raises no error
C30_TotalOverAccepted ==
  (pc = "validated" /\ validateRulesConfig(rules)) => ~result.threw

\* the rejections made since the history was last cleared and not undone,
\* newest first
RECURSIVE Reverse(_)
Reverse(q) == IF q = <<>> THEN <<>> ELSE Append(Reverse(Tail(q)), Head(q))

NotUndone == Reverse(SelectSeq(log.rejections, LAMBDA r : ~r.undone))

Stamps(q) == [i \in 1..Len(q) |-> q[i].timestamp]

\* the history never exceeds its limit and is ordered newest first
C24_BoundedNewestFirst ==
  LET h == monitor.rejectionHistory
  IN /\ Len(h) <= HistoryLimit
     /\ \A i, j \in 1..Len(h) : i < j => h[i].timestamp > h[j].timestamp

\* C24: the rejection history holds at most 10 entries, newest first, and
\* they are the most recent rejections that were not undone
C24_HistoryOfLastTen ==
  /\ C24_BoundedNewestFirst
  /\ Stamps(monitor.rejectionHistory) =
       Stamps(SubSeq(NotUndone, 1, Min(Len(NotUndone), HistoryLimit)))

\* C26: a save of an open document sets its snapshot to the saved text
\* exactly when the document has no pending review and no debounce timer
\* waiting to fire, a timer that has fired included
C26_SaveUpdatesSnapshot ==
  \A u \in workspace.open :
     LET saved == onDidSave(monitor, u, workspace.text[u])
         idle == monitor.pendingChanges[u] = <<>> /\ monitor.debounceTimers[u] # "waiting"
     IN IF idle THEN saved.documentSnapshots[u] = <<workspace.text[u]>>
        ELSE saved.documentSnapshots[u] = monitor.documentSnapshots[u]

\* C28: a document is in isProcessing only while pendingChanges holds a
\* change for it
C28_ProcessingHasPending ==
  \A u \in monitor.isProcessing : monitor.pendingChanges[u] # <<>>

\* C29: once every rejectChange and undoRejection call has completed,
\* config.enabled has the value it had before the first of them started
C29_EnabledRestored ==
  (pc = "monitoring" /\ calls = <<>>) => monitor.enabled = log.enabled

====
